---- MODULE Spec2Model ----
(***************************************************************************)
(* GoalManager (src/unnamed/part_010): the goal and attachment ledger.     *)
(*                                                                         *)
(* Every external entry point of the contract is one atomic action: a      *)
(* Solidity transaction either commits all of its writes or reverts and    *)
(* commits none.  The vault (ISupplierVaultMinimal) is an external         *)
(* contract: its deposits are a fixed table, what it reports as pledged     *)
(* during a call is an input of the action.  `last` is the receipt of the   *)
(* transaction just executed: the entry point, its arguments and "ok" or    *)
(* the message of the require that reverted it; the caller takes the        *)
(* receipt (Ack) before the next transaction is submitted.  The leaderboard  *)
(* is an external contract too: the address configured decides whether its *)
(* record calls return or revert, and `recorded` counts, per goal, the      *)
(* recordGoalCompletion calls made to it.                                   *)
(***************************************************************************)
EXTENDS Integers, Sequences, FiniteSets

\* ---------------------------------------------------------------- bounds
MaxGoals == 2          \* goals ever created (_goalCounter is capped in the guards)
MaxDepositId == 2      \* deposit ids 1..MaxDepositId exist in a vault
MaxBatch == 2          \* longest depositIds / indices list of one call
CapGoal == 2           \* _maxPerGoal passed to initialize
CapUser == 1           \* _maxPerUser passed to initialize
StartTime == 1         \* block.timestamp at initialize
MaxCalls == 3          \* checkAndAwardXP calls under way at once

\* ------------------------------------------------------- program constants
MIN_LOCK_PERIOD == 30  \* 30 days, in days
DefaultMaxPerGoal == 200
DefaultMaxPerUser == 500

\* ------------------------------------------------------------ identities
ZeroAddress == "0x0"
Admin == "admin"       \* holds ADMIN_ROLE and KEEPER_ROLE (initialize)
Backend == "backend"   \* holds BACKEND_ROLE
Notifier == "notifier" \* the address setNotifier may whitelist
Keeper == "keeper"     \* holds KEEPER_ROLE only
LbOk == "lbOk"               \* a leaderboard contract whose record calls return
LbReverting == "lbReverting" \* a leaderboard contract whose record calls revert
Leaderboards == {ZeroAddress, LbOk, LbReverting}
Users == {"u1", "u2"}
Vaults == {"vA", "vB"}
DepositIds == 1..MaxDepositId
GoalIds == 1..MaxGoals

hasAdminRole(a) == a = Admin
hasKeeperRole(a) == a \in {Admin, Keeper}
hasBackendRole(a) == a = Backend

VARIABLES now, goalCounter, goals, attachments, depositToGoal, quicksaveGoalOf,
          notifiers, maxAttachmentsPerGoal, maxAttachmentsPerUser,
          attachmentsPaused, creationPaused, leaderboard, recorded, last,
          xpAwarded, xpHistory, xpCalls

\* The document store of the XP service: the meta-goal documents' xpAwarded
\* flags, the xpHistory entries pushed, and the checkAndAwardXP calls under way.
database == <<xpAwarded, xpHistory, xpCalls>>

ledger == <<attachments, depositToGoal>>
config == <<notifiers, maxAttachmentsPerGoal, maxAttachmentsPerUser,
            attachmentsPaused, creationPaused, leaderboard>>
contract == <<goalCounter, goals, attachments, depositToGoal, quicksaveGoalOf,
              notifiers, maxAttachmentsPerGoal, maxAttachmentsPerUser,
              attachmentsPaused, creationPaused, leaderboard>>
vars == <<now, goalCounter, goals, attachments, depositToGoal, quicksaveGoalOf,
          notifiers, maxAttachmentsPerGoal, maxAttachmentsPerUser,
          attachmentsPaused, creationPaused, leaderboard, recorded, last,
          xpAwarded, xpHistory, xpCalls>>

\* The storage default of a Goal slot never written.
NoGoal == [id |-> 0, creator |-> ZeroAddress, vault |-> ZeroAddress,
           targetAmount |-> 0, targetDate |-> 0, createdAt |-> 0,
           cancelled |-> FALSE, completed |-> FALSE]

\* keccak256(abi.encodePacked(vault, owner, depositId)): injective on its inputs.
depositKey(vault, owner, depositId) == <<vault, owner, depositId>>
DepositKeys == Vaults \X Users \X DepositIds

\* The deposits held by the vaults (external state the contract only reads):
\* what vault.getUserDeposit(owner, depositId) returns as currentValue and
\* lockEnd.  A deposit the vault does not know reads as zeros.  Relative to
\* StartTime one deposit is still locked, one is at its lock end, one is past it.
VaultDeposits ==
    [k \in DepositKeys |->
        IF k = <<"vA", "u1", 1>> THEN [currentValue |-> 1, lockEnd |-> StartTime + 1]
        ELSE IF k = <<"vA", "u1", 2>> THEN [currentValue |-> 1, lockEnd |-> StartTime]
        ELSE IF k = <<"vA", "u2", 1>> THEN [currentValue |-> 2, lockEnd |-> StartTime - 1]
        ELSE IF k = <<"vB", "u1", 1>> THEN [currentValue |-> 2, lockEnd |-> StartTime]
        ELSE [currentValue |-> 0, lockEnd |-> 0]]

getUserDeposit(vault, owner, depositId) == VaultDeposits[<<vault, owner, depositId>>]

\* The receipt of a transaction.  goalId is the goal named (the source goal of a
\* transfer, the id assigned by a creation), to the target goal of a transfer,
\* owner the owner of the deposits named, ids the depositIds or indices given.
Receipt(op, caller, goalId, to, owner, ids, err) ==
    [op |-> op, caller |-> caller, goalId |-> goalId, to |-> to, owner |-> owner,
     ids |-> ids, err |-> err]
NoReceipt == Receipt("none", ZeroAddress, 0, 0, ZeroAddress, <<>>, "ok")
Idle == last = NoReceipt

\* initialize(admin, _maxPerGoal, _maxPerUser), followed by the deployment's
\* setNotifier(Notifier, true).
initialize(maxPerGoal, maxPerUser) ==
    /\ now = StartTime
    /\ goalCounter = 1
    /\ goals = [g \in GoalIds |-> NoGoal]
    /\ attachments = [g \in GoalIds |-> <<>>]
    /\ depositToGoal = [k \in DepositKeys |-> 0]
    /\ quicksaveGoalOf = [p \in Vaults \X Users |-> 0]
    /\ notifiers = {Notifier}
    /\ maxAttachmentsPerGoal = IF maxPerGoal = 0 THEN DefaultMaxPerGoal ELSE maxPerGoal
    /\ maxAttachmentsPerUser = IF maxPerUser = 0 THEN DefaultMaxPerUser ELSE maxPerUser
    /\ attachmentsPaused = FALSE
    /\ creationPaused = FALSE
    /\ leaderboard = ZeroAddress
    /\ recorded = [g \in GoalIds |-> 0]
    /\ last = NoReceipt

\* The XP service's documents. One meta-goal document exists, "m1", whose
\* onChainGoals name the goals of the contract; "m0" is an id without a
\* document. A document created without xpAwarded matches {$ne: true} as one
\* holding false does.
MetaGoalDocs == {"m1"}
MetaGoalIds == {"m0", "m1"}
CallIds == 1..MaxCalls
NoCall == [pc |-> "idle", metaGoalId |-> "m0", credited |-> FALSE,
           recipients |-> {}, awarded |-> "pending"]

emptyDatabase ==
    /\ xpAwarded = [m \in MetaGoalDocs |-> FALSE]
    /\ xpHistory = <<>>
    /\ xpCalls = [c \in CallIds |-> NoCall]

Init == initialize(CapGoal, CapUser) /\ emptyDatabase

\* A deployment with room for a batch of one owner in a goal.
InitBatch == initialize(CapGoal + 1, CapUser + 1) /\ emptyDatabase

\* A call that reverts: nothing of the contract changes.
Revert(rc) ==
    /\ last' = rc
    /\ UNCHANGED <<database, now, recorded, contract>>

\* The caller takes the receipt.
Ack ==
    /\ ~Idle
    /\ last' = NoReceipt
    /\ UNCHANGED <<database, now, recorded, contract>>

\* ------------------------------------------------------------ goal creation
NewGoal(goalId, creator, vault, targetAmount, targetDate) ==
    [id |-> goalId, creator |-> creator, vault |-> vault,
     targetAmount |-> targetAmount,
     targetDate |-> IF targetDate = 0 THEN now + MIN_LOCK_PERIOD ELSE targetDate,
     createdAt |-> now, cancelled |-> FALSE, completed |-> FALSE]

\* Variant without the require on the target date.
createGoalErrAnyDate(vault, targetDate) ==
    IF creationPaused THEN "Creation paused"
    ELSE IF vault = ZeroAddress THEN "Invalid vault"
    ELSE "ok"

createGoalErr(vault, targetDate) ==
    IF creationPaused THEN "Creation paused"
    ELSE IF vault = ZeroAddress THEN "Invalid vault"
    ELSE IF ~(targetDate = 0 \/ targetDate >= now + MIN_LOCK_PERIOD) THEN "Target too soon"
    ELSE "ok"

\* Variant that assigns _goalCounter without moving it on.
createGoalSameId(caller, vault, targetAmount, targetDate) ==
    /\ goalCounter <= MaxGoals
    /\ LET err == createGoalErr(vault, targetDate) IN
       IF err # "ok" THEN Revert(Receipt("createGoal", caller, goalCounter, 0, caller, <<>>, err))
       ELSE /\ goals' = [goals EXCEPT ![goalCounter] =
                            NewGoal(goalCounter, caller, vault, targetAmount, targetDate)]
            /\ last' = Receipt("createGoal", caller, goalCounter, 0, caller, <<>>, "ok")
            /\ UNCHANGED <<database, now, recorded, goalCounter, attachments, depositToGoal,
                           quicksaveGoalOf, config>>

createGoal(caller, vault, targetAmount, targetDate) ==
    /\ goalCounter <= MaxGoals
    /\ LET err == createGoalErr(vault, targetDate) IN
       IF err # "ok" THEN Revert(Receipt("createGoal", caller, goalCounter, 0, caller, <<>>, err))
       ELSE /\ goals' = [goals EXCEPT ![goalCounter] =
                            NewGoal(goalCounter, caller, vault, targetAmount, targetDate)]
            /\ goalCounter' = goalCounter + 1
            /\ last' = Receipt("createGoal", caller, goalCounter, 0, caller, <<>>, "ok")
            /\ UNCHANGED <<database, now, recorded, attachments, depositToGoal, quicksaveGoalOf, config>>

createGoalFor(caller, creator, vault, targetAmount, targetDate) ==
    /\ goalCounter <= MaxGoals
    /\ LET err == IF ~hasBackendRole(caller) THEN "AccessControl: missing role"
                  ELSE IF creator = ZeroAddress THEN "Invalid creator"
                  ELSE createGoalErr(vault, targetDate) IN
       IF err # "ok" THEN Revert(Receipt("createGoalFor", caller, goalCounter, 0, creator, <<>>, err))
       ELSE /\ goals' = [goals EXCEPT ![goalCounter] =
                            NewGoal(goalCounter, creator, vault, targetAmount, targetDate)]
            /\ goalCounter' = goalCounter + 1
            /\ last' = Receipt("createGoalFor", caller, goalCounter, 0, creator, <<>>, "ok")
            /\ UNCHANGED <<database, now, recorded, attachments, depositToGoal, quicksaveGoalOf, config>>

\* _createQuicksaveFor: the goal record it writes for goalId = _goalCounter.
QuicksaveGoal(goalId, user, vault) ==
    [id |-> goalId, creator |-> user, vault |-> vault, targetAmount |-> 0,
     targetDate |-> now + MIN_LOCK_PERIOD, createdAt |-> now,
     cancelled |-> FALSE, completed |-> FALSE]

\* Variant without the require on quicksaveGoalOf.
createQuicksaveGoalForAgain(caller, user, vault) ==
    /\ goalCounter <= MaxGoals
    /\ LET err == IF ~hasBackendRole(caller) THEN "AccessControl: missing role"
                  ELSE IF creationPaused THEN "Creation paused"
                  ELSE IF user = ZeroAddress THEN "Invalid user"
                  ELSE IF vault = ZeroAddress THEN "Invalid vault"
                  ELSE "ok" IN
       IF err # "ok" THEN Revert(Receipt("createQuicksaveGoalFor", caller, goalCounter, 0, user, <<>>, err))
       ELSE /\ goals' = [goals EXCEPT ![goalCounter] = QuicksaveGoal(goalCounter, user, vault)]
            /\ quicksaveGoalOf' = [quicksaveGoalOf EXCEPT ![<<vault, user>>] = goalCounter]
            /\ goalCounter' = goalCounter + 1
            /\ last' = Receipt("createQuicksaveGoalFor", caller, goalCounter, 0, user, <<>>, "ok")
            /\ UNCHANGED <<database, now, recorded, attachments, depositToGoal, config>>

createQuicksaveGoalFor(caller, user, vault) ==
    /\ goalCounter <= MaxGoals
    /\ LET err == IF ~hasBackendRole(caller) THEN "AccessControl: missing role"
                  ELSE IF creationPaused THEN "Creation paused"
                  ELSE IF user = ZeroAddress THEN "Invalid user"
                  ELSE IF vault = ZeroAddress THEN "Invalid vault"
                  ELSE IF quicksaveGoalOf[<<vault, user>>] # 0
                       THEN "Quicksave goal already exists"
                  ELSE "ok" IN
       IF err # "ok" THEN Revert(Receipt("createQuicksaveGoalFor", caller, goalCounter, 0, user, <<>>, err))
       ELSE /\ goals' = [goals EXCEPT ![goalCounter] = QuicksaveGoal(goalCounter, user, vault)]
            /\ quicksaveGoalOf' = [quicksaveGoalOf EXCEPT ![<<vault, user>>] = goalCounter]
            /\ goalCounter' = goalCounter + 1
            /\ last' = Receipt("createQuicksaveGoalFor", caller, goalCounter, 0, user, <<>>, "ok")
            /\ UNCHANGED <<database, now, recorded, attachments, depositToGoal, config>>

\* ----------------------------------------------------------- leaderboard
\* What a record call to the leaderboard at address lb does.
sinkOutcome(lb) == IF lb = LbReverting THEN "revert" ELSE "return"

\* Variant in which a revert of the leaderboard is rethrown.
notifyErrRethrown(lb) ==
    IF lb = ZeroAddress THEN "ok"
    ELSE IF sinkOutcome(lb) = "return" THEN "ok"
    ELSE "Leaderboard reverted"

\* if (address(leaderboard) != address(0)) { try leaderboard.record...(...) {} catch {} }
\* as the caller sees it: the error it is left with, "ok" for none.
notifyErr(lb) ==
    IF lb = ZeroAddress THEN "ok"
    ELSE IF sinkOutcome(lb) = "return" THEN "ok"
    ELSE "ok"

\* ---------------------------------------------------------------- attach
\* vault.isDepositPledged(owner, depositId), where pledgedIn is the set of
\* (owner, depositId) the vault reports as pledged during this call.
isDepositPledged(pledgedIn, owner, depositId) == <<owner, depositId>> \in pledgedIn

\* for (i = 0; i < arr.length; i++) if (arr[i].owner == owner) userCount++;
userCount(arr, owner) == Cardinality({i \in 1..Len(arr) : arr[i].owner = owner})

\* Variant that stores every attachment as unpledged.
NewAttachmentUnpledged(owner, depositId, pledged) ==
    [owner |-> owner, depositId |-> depositId, attachedAt |-> now, pledged |-> FALSE]

NewAttachment(owner, depositId, pledged) ==
    [owner |-> owner, depositId |-> depositId, attachedAt |-> now, pledged |-> pledged]

\* One id of an attach: the first failing require, or "ok".
\* Variant without the depositToGoal lookup.
attachOneErrNoIndex(g, owner, depositId, d2g) ==
    LET dep == getUserDeposit(g.vault, owner, depositId)
    IN IF ~(dep.currentValue > 0) THEN "Deposit not found or zero"
       ELSE IF g.targetAmount # 0 /\ ~(dep.lockEnd >= now) THEN "Deposit already unlocked"
       ELSE "ok"

attachOneErr(g, owner, depositId, d2g) ==
    LET dep == getUserDeposit(g.vault, owner, depositId)
    IN IF ~(dep.currentValue > 0) THEN "Deposit not found or zero"
       ELSE IF g.targetAmount # 0 /\ ~(dep.lockEnd >= now) THEN "Deposit already unlocked"
       ELSE IF d2g[depositKey(g.vault, owner, depositId)] # 0 THEN "Deposit already attached"
       ELSE notifyErr(leaderboard)

\* The loop over depositIds of attachDeposits / attachDepositsOnBehalf, from
\* position i with the storage (arr, d2g) written so far.  On a failing
\* require it stops with the error; the storage written so far is what the
\* revert discards.
RECURSIVE attachLoop(_, _, _, _, _, _, _)
attachLoop(g, owner, depositIds, pledgedIn, i, arr, d2g) ==
    IF i > Len(depositIds) THEN [err |-> "ok", arr |-> arr, d2g |-> d2g]
    ELSE LET depositId == depositIds[i]
             err == attachOneErr(g, owner, depositId, d2g)
         IN IF err # "ok" THEN [err |-> err, arr |-> arr, d2g |-> d2g]
            ELSE attachLoop(g, owner, depositIds, pledgedIn, i + 1,
                            Append(arr, NewAttachment(owner, depositId,
                                        isDepositPledged(pledgedIn, owner, depositId))),
                            [d2g EXCEPT ![depositKey(g.vault, owner, depositId)] = g.id])

\* Variant without the require on the goal's window.
attachPreErrNoWindow(goalId, owner, n) ==
    LET g == goals[goalId]
        arr == attachments[goalId]
    IN IF attachmentsPaused THEN "Attachments paused"
       ELSE IF ~(g.id # 0 /\ ~g.cancelled /\ ~g.completed) THEN "Invalid goal"
       ELSE IF ~(n > 0) THEN "No deposits"
       ELSE IF ~(Len(arr) + n <= maxAttachmentsPerGoal) THEN "Goal attachment cap"
       ELSE IF ~(userCount(arr, owner) + n <= maxAttachmentsPerUser)
            THEN "Per-user cap for this goal"
       ELSE "ok"

\* Variant without the per-user require.
attachPreErrNoUserCap(goalId, owner, n) ==
    LET g == goals[goalId]
        arr == attachments[goalId]
    IN IF attachmentsPaused THEN "Attachments paused"
       ELSE IF ~(g.id # 0 /\ ~g.cancelled /\ ~g.completed) THEN "Invalid goal"
       ELSE IF ~(now <= g.targetDate) THEN "Goal window passed"
       ELSE IF ~(n > 0) THEN "No deposits"
       ELSE IF ~(Len(arr) + n <= maxAttachmentsPerGoal) THEN "Goal attachment cap"
       ELSE "ok"

\* The requires of attachDeposits before its loop.
attachPreErr(goalId, owner, n) ==
    LET g == goals[goalId]
        arr == attachments[goalId]
    IN IF attachmentsPaused THEN "Attachments paused"
       ELSE IF ~(g.id # 0 /\ ~g.cancelled /\ ~g.completed) THEN "Invalid goal"
       ELSE IF ~(now <= g.targetDate) THEN "Goal window passed"
       ELSE IF ~(n > 0) THEN "No deposits"
       ELSE IF ~(Len(arr) + n <= maxAttachmentsPerGoal) THEN "Goal attachment cap"
       ELSE IF ~(userCount(arr, owner) + n <= maxAttachmentsPerUser)
            THEN "Per-user cap for this goal"
       ELSE "ok"

\* The whole call: the error and the storage at the point it ended.
attachResult(goalId, owner, depositIds, pledgedIn) ==
    LET pre == attachPreErr(goalId, owner, Len(depositIds))
    IN IF pre # "ok" THEN [err |-> pre, arr |-> attachments[goalId], d2g |-> depositToGoal]
       ELSE attachLoop(goals[goalId], owner, depositIds, pledgedIn, 1,
                       attachments[goalId], depositToGoal)

\* The transaction commits the storage only when no require failed.
\* Variant in which a failing call keeps the storage written before the failure.
commitAttachPartial(op, caller, goalId, owner, depositIds, r) ==
    /\ attachments' = [attachments EXCEPT ![goalId] = r.arr]
    /\ depositToGoal' = r.d2g
    /\ last' = Receipt(op, caller, goalId, 0, owner, depositIds, r.err)
    /\ UNCHANGED <<database, now, recorded, goalCounter, goals, quicksaveGoalOf, config>>

commitAttach(op, caller, goalId, owner, depositIds, r) ==
    IF r.err # "ok" THEN Revert(Receipt(op, caller, goalId, 0, owner, depositIds, r.err))
    ELSE /\ attachments' = [attachments EXCEPT ![goalId] = r.arr]
         /\ depositToGoal' = r.d2g
         /\ last' = Receipt(op, caller, goalId, 0, owner, depositIds, "ok")
         /\ UNCHANGED <<database, now, recorded, goalCounter, goals, quicksaveGoalOf, config>>

attachDeposits(caller, goalId, depositIds, pledgedIn) ==
    commitAttach("attachDeposits", caller, goalId, caller, depositIds,
                 attachResult(goalId, caller, depositIds, pledgedIn))

attachDepositsOnBehalf(caller, goalId, owner, depositIds, pledgedIn) ==
    IF ~hasBackendRole(caller)
    THEN Revert(Receipt("attachDepositsOnBehalf", caller, goalId, 0, owner, depositIds,
                        "AccessControl: missing role"))
    ELSE commitAttach("attachDepositsOnBehalf", caller, goalId, owner, depositIds,
                      attachResult(goalId, owner, depositIds, pledgedIn))

\* _attachDepositOnBehalf(goalId, owner, depositId) against the goal record g
\* and its attachments arr: the first failing require, or "ok".
attachOnBehalfErr(g, arr, owner, depositId) ==
    IF ~(g.id # 0 /\ ~g.cancelled /\ ~g.completed) THEN "Invalid goal"
    ELSE IF ~(Len(arr) + 1 <= maxAttachmentsPerGoal) THEN "Goal cap"
    ELSE IF ~(userCount(arr, owner) + 1 <= maxAttachmentsPerUser) THEN "Per-user cap"
    ELSE attachOneErr(g, owner, depositId, depositToGoal)

\* Variant without the require on the notifier whitelist.
autoAttachToQuicksaveOpen(caller, user, vault, depositId, pledgedIn) ==
    LET quickId == quicksaveGoalOf[<<vault, user>>]
        create == quickId = 0
        goalId == IF create THEN goalCounter ELSE quickId
        g == IF create THEN QuicksaveGoal(goalCounter, user, vault) ELSE goals[quickId]
        err == IF user = ZeroAddress THEN "Invalid user"
               ELSE IF vault = ZeroAddress THEN "Invalid vault"
               ELSE attachOnBehalfErr(g, attachments[goalId], user, depositId)
    IN /\ create => goalCounter <= MaxGoals
       /\ IF err # "ok" THEN Revert(Receipt("autoAttachToQuicksave", caller, goalId, 0, user, <<depositId>>, err))
          ELSE /\ goals' = [goals EXCEPT ![goalId] = g]
               /\ goalCounter' = IF create THEN goalCounter + 1 ELSE goalCounter
               /\ quicksaveGoalOf' = [quicksaveGoalOf EXCEPT ![<<vault, user>>] = goalId]
               /\ attachments' = [attachments EXCEPT ![goalId] =
                     Append(@, NewAttachment(user, depositId,
                                   isDepositPledged(pledgedIn, user, depositId)))]
               /\ depositToGoal' = [depositToGoal EXCEPT
                                       ![depositKey(g.vault, user, depositId)] = goalId]
               /\ last' = Receipt("autoAttachToQuicksave", caller, goalId, 0, user, <<depositId>>, "ok")
               /\ UNCHANGED <<database, now, recorded, config>>

\* Variant that replaces a cancelled default goal by a new one.
autoAttachToQuicksaveReplacing(caller, user, vault, depositId, pledgedIn) ==
    LET quickId == quicksaveGoalOf[<<vault, user>>]
        create == quickId = 0 \/ goals[quickId].cancelled
        goalId == IF create THEN goalCounter ELSE quickId
        g == IF create THEN QuicksaveGoal(goalCounter, user, vault) ELSE goals[quickId]
        err == IF caller \notin notifiers THEN "Not authorized notifier"
               ELSE IF user = ZeroAddress THEN "Invalid user"
               ELSE IF vault = ZeroAddress THEN "Invalid vault"
               ELSE attachOnBehalfErr(g, attachments[goalId], user, depositId)
    IN /\ create => goalCounter <= MaxGoals
       /\ IF err # "ok" THEN Revert(Receipt("autoAttachToQuicksave", caller, goalId, 0, user, <<depositId>>, err))
          ELSE /\ goals' = [goals EXCEPT ![goalId] = g]
               /\ goalCounter' = IF create THEN goalCounter + 1 ELSE goalCounter
               /\ quicksaveGoalOf' = [quicksaveGoalOf EXCEPT ![<<vault, user>>] = goalId]
               /\ attachments' = [attachments EXCEPT ![goalId] =
                     Append(@, NewAttachment(user, depositId,
                                   isDepositPledged(pledgedIn, user, depositId)))]
               /\ depositToGoal' = [depositToGoal EXCEPT
                                       ![depositKey(g.vault, user, depositId)] = goalId]
               /\ last' = Receipt("autoAttachToQuicksave", caller, goalId, 0, user, <<depositId>>, "ok")
               /\ UNCHANGED <<database, now, recorded, config>>

autoAttachToQuicksave(caller, user, vault, depositId, pledgedIn) ==
    LET quickId == quicksaveGoalOf[<<vault, user>>]
        create == quickId = 0
        goalId == IF create THEN goalCounter ELSE quickId
        g == IF create THEN QuicksaveGoal(goalCounter, user, vault) ELSE goals[quickId]
        err == IF caller \notin notifiers THEN "Not authorized notifier"
               ELSE IF user = ZeroAddress THEN "Invalid user"
               ELSE IF vault = ZeroAddress THEN "Invalid vault"
               ELSE attachOnBehalfErr(g, attachments[goalId], user, depositId)
    IN /\ create => goalCounter <= MaxGoals
       /\ IF err # "ok" THEN Revert(Receipt("autoAttachToQuicksave", caller, goalId, 0, user, <<depositId>>, err))
          ELSE /\ goals' = [goals EXCEPT ![goalId] = g]
               /\ goalCounter' = IF create THEN goalCounter + 1 ELSE goalCounter
               /\ quicksaveGoalOf' = [quicksaveGoalOf EXCEPT ![<<vault, user>>] = goalId]
               /\ attachments' = [attachments EXCEPT ![goalId] =
                     Append(@, NewAttachment(user, depositId,
                                   isDepositPledged(pledgedIn, user, depositId)))]
               /\ depositToGoal' = [depositToGoal EXCEPT
                                       ![depositKey(g.vault, user, depositId)] = goalId]
               /\ last' = Receipt("autoAttachToQuicksave", caller, goalId, 0, user, <<depositId>>, "ok")
               /\ UNCHANGED <<database, now, recorded, config>>

\* ------------------------------------------------------------- re-entry
\* A leaderboard contract that is also a whitelisted caller may call back
\* into the contract from inside recordDeposit.  The functions marked
\* nonReentrant turn such a call down; autoAttachToQuicksave carries no such
\* mark.  LbReentering is a leaderboard whose recordDeposit calls
\* autoAttachToQuicksave(cb.user, cb.vault, cb.depositId) and returns whether
\* or not that call reverted.
LbReentering == "lbReentering"

\* The storage a transaction works on.
Storage ==
    [goalCounter |-> goalCounter, goals |-> goals, attachments |-> attachments,
     depositToGoal |-> depositToGoal, quicksaveGoalOf |-> quicksaveGoalOf]

\* autoAttachToQuicksave(user, vault, depositId) called by caller on the
\* storage st: the storage it leaves, st itself when it reverts.
autoAttachIn(st, caller, user, vault, depositId, pledgedIn) ==
    LET quickId == st.quicksaveGoalOf[<<vault, user>>]
        create == quickId = 0
        goalId == IF create THEN st.goalCounter ELSE quickId
        g == IF create THEN QuicksaveGoal(st.goalCounter, user, vault) ELSE st.goals[quickId]
        arr == IF goalId \in GoalIds THEN st.attachments[goalId] ELSE <<>>
        err == IF caller \notin notifiers THEN "Not authorized notifier"
               ELSE IF user = ZeroAddress THEN "Invalid user"
               ELSE IF vault = ZeroAddress THEN "Invalid vault"
               ELSE IF ~(g.id # 0 /\ ~g.cancelled /\ ~g.completed) THEN "Invalid goal"
               ELSE IF ~(Len(arr) + 1 <= maxAttachmentsPerGoal) THEN "Goal cap"
               ELSE IF ~(userCount(arr, user) + 1 <= maxAttachmentsPerUser) THEN "Per-user cap"
               ELSE attachOneErr(g, user, depositId, st.depositToGoal)
    IN IF err # "ok" \/ goalId \notin GoalIds THEN st
       ELSE [goalCounter |-> IF create THEN st.goalCounter + 1 ELSE st.goalCounter,
             goals |-> [st.goals EXCEPT ![goalId] = g],
             quicksaveGoalOf |-> [st.quicksaveGoalOf EXCEPT ![<<vault, user>>] = goalId],
             attachments |-> [st.attachments EXCEPT ![goalId] =
                                Append(@, NewAttachment(user, depositId,
                                             isDepositPledged(pledgedIn, user, depositId)))],
             depositToGoal |-> [st.depositToGoal EXCEPT
                                  ![depositKey(g.vault, user, depositId)] = goalId]]

\* The loop of attachDeposits from position i on the storage st, the
\* leaderboard's recordDeposit running after each push.
RECURSIVE attachLoopReentered(_, _, _, _, _, _, _)
attachLoopReentered(goalId, owner, depositIds, pledgedIn, i, st, cb) ==
    IF i > Len(depositIds) THEN [err |-> "ok", st |-> st]
    ELSE LET depositId == depositIds[i]
             g == st.goals[goalId]
             err == attachOneErr(g, owner, depositId, st.depositToGoal)
             pushed == [st EXCEPT
                          !.attachments[goalId] =
                              Append(@, NewAttachment(owner, depositId,
                                           isDepositPledged(pledgedIn, owner, depositId))),
                          !.depositToGoal[depositKey(g.vault, owner, depositId)] = goalId]
             after == IF leaderboard = LbReentering
                      THEN autoAttachIn(pushed, leaderboard, cb.user, cb.vault,
                                        cb.depositId, pledgedIn)
                      ELSE pushed
         IN IF err # "ok" THEN [err |-> err, st |-> st]
            ELSE attachLoopReentered(goalId, owner, depositIds, pledgedIn, i + 1, after, cb)

\* attachDeposits as a whole transaction when the leaderboard may call back.
attachDepositsReentered(caller, goalId, depositIds, pledgedIn, cb) ==
    LET pre == attachPreErr(goalId, caller, Len(depositIds))
        r == IF pre # "ok" THEN [err |-> pre, st |-> Storage]
             ELSE attachLoopReentered(goalId, caller, depositIds, pledgedIn, 1, Storage, cb)
    IN IF r.err # "ok"
       THEN Revert(Receipt("attachDeposits", caller, goalId, 0, caller, depositIds, r.err))
       ELSE /\ goalCounter' = r.st.goalCounter
            /\ goals' = r.st.goals
            /\ attachments' = r.st.attachments
            /\ depositToGoal' = r.st.depositToGoal
            /\ quicksaveGoalOf' = r.st.quicksaveGoalOf
            /\ last' = Receipt("attachDeposits", caller, goalId, 0, caller, depositIds, "ok")
            /\ UNCHANGED <<database, now, recorded, config>>

\* -------------------------------------------------------------- transfer
\* The first index of the caller's attachment for depositId, or 0 for the
\* source's type(uint256).max "not found" (positions are 1-based here).
findAttachment(arr, owner, depositId) ==
    LET hits == {i \in 1..Len(arr) : arr[i].owner = owner /\ arr[i].depositId = depositId}
    IN IF hits = {} THEN 0 ELSE CHOOSE i \in hits : \A j \in hits : i <= j

\* Variant that pops the tail without moving it into the freed slot.
popOnly(arr, idx) == SubSeq(arr, 1, Len(arr) - 1)

\* Variant that moves the tail into the freed slot without popping.
swapNoPop(arr, idx) == [arr EXCEPT ![idx] = arr[Len(arr)]]

\* if (idx != tail) arr[idx] = arr[tail]; arr.pop();
swapPop(arr, idx) ==
    LET tail == Len(arr)
        moved == IF idx # tail THEN [arr EXCEPT ![idx] = arr[tail]] ELSE arr
    IN SubSeq(moved, 1, tail - 1)

\* Variant whose goal-state require looks at the source goal only.
transferErrSourceOnly(caller, fromGoalId, toGoalId, depositId) ==
    LET fromG == goals[fromGoalId]
        toG == goals[toGoalId]
        fromArr == attachments[fromGoalId]
        idx == findAttachment(fromArr, caller, depositId)
        dep == getUserDeposit(fromG.vault, caller, depositId)
    IN IF ~(fromGoalId # toGoalId) THEN "Same goal"
       ELSE IF ~(fromG.id # 0 /\ toG.id # 0) THEN "Invalid goal"
       ELSE IF ~(fromG.vault = toG.vault) THEN "Different vaults"
       ELSE IF ~(~fromG.cancelled /\ ~fromG.completed) THEN "Invalid goal state"
       ELSE IF idx = 0 THEN "Not attached to fromGoal"
       ELSE IF fromArr[idx].pledged THEN "Attachment pledged"
       ELSE IF ~(Len(attachments[toGoalId]) + 1 <= maxAttachmentsPerGoal) THEN "Target goal cap"
       ELSE IF ~(dep.currentValue > 0) THEN "Deposit not found"
       ELSE IF ~(dep.lockEnd >= now) THEN "Deposit locked"
       ELSE "ok"

\* Variant without the require on the stored pledged flag.
transferErrNoPledgeCheck(caller, fromGoalId, toGoalId, depositId) ==
    LET fromG == goals[fromGoalId]
        toG == goals[toGoalId]
        fromArr == attachments[fromGoalId]
        idx == findAttachment(fromArr, caller, depositId)
        dep == getUserDeposit(fromG.vault, caller, depositId)
    IN IF ~(fromGoalId # toGoalId) THEN "Same goal"
       ELSE IF ~(fromG.id # 0 /\ toG.id # 0) THEN "Invalid goal"
       ELSE IF ~(fromG.vault = toG.vault) THEN "Different vaults"
       ELSE IF ~(~toG.cancelled /\ ~toG.completed /\ ~fromG.cancelled /\ ~fromG.completed)
            THEN "Invalid goal state"
       ELSE IF idx = 0 THEN "Not attached to fromGoal"
       ELSE IF ~(Len(attachments[toGoalId]) + 1 <= maxAttachmentsPerGoal) THEN "Target goal cap"
       ELSE IF ~(dep.currentValue > 0) THEN "Deposit not found"
       ELSE IF ~(dep.lockEnd >= now) THEN "Deposit locked"
       ELSE "ok"

\* Variant without the require on the deposit's lock end.
transferErrNoLockCheck(caller, fromGoalId, toGoalId, depositId) ==
    LET fromG == goals[fromGoalId]
        toG == goals[toGoalId]
        fromArr == attachments[fromGoalId]
        idx == findAttachment(fromArr, caller, depositId)
        dep == getUserDeposit(fromG.vault, caller, depositId)
    IN IF ~(fromGoalId # toGoalId) THEN "Same goal"
       ELSE IF ~(fromG.id # 0 /\ toG.id # 0) THEN "Invalid goal"
       ELSE IF ~(fromG.vault = toG.vault) THEN "Different vaults"
       ELSE IF ~(~toG.cancelled /\ ~toG.completed /\ ~fromG.cancelled /\ ~fromG.completed)
            THEN "Invalid goal state"
       ELSE IF idx = 0 THEN "Not attached to fromGoal"
       ELSE IF fromArr[idx].pledged THEN "Attachment pledged"
       ELSE IF ~(Len(attachments[toGoalId]) + 1 <= maxAttachmentsPerGoal) THEN "Target goal cap"
       ELSE IF ~(dep.currentValue > 0) THEN "Deposit not found"
       ELSE "ok"

transferErr(caller, fromGoalId, toGoalId, depositId) ==
    LET fromG == goals[fromGoalId]
        toG == goals[toGoalId]
        fromArr == attachments[fromGoalId]
        idx == findAttachment(fromArr, caller, depositId)
        dep == getUserDeposit(fromG.vault, caller, depositId)
    IN IF ~(fromGoalId # toGoalId) THEN "Same goal"
       ELSE IF ~(fromG.id # 0 /\ toG.id # 0) THEN "Invalid goal"
       ELSE IF ~(fromG.vault = toG.vault) THEN "Different vaults"
       ELSE IF ~(~toG.cancelled /\ ~toG.completed /\ ~fromG.cancelled /\ ~fromG.completed)
            THEN "Invalid goal state"
       ELSE IF idx = 0 THEN "Not attached to fromGoal"
       ELSE IF fromArr[idx].pledged THEN "Attachment pledged"
       ELSE IF ~(Len(attachments[toGoalId]) + 1 <= maxAttachmentsPerGoal) THEN "Target goal cap"
       ELSE IF ~(dep.currentValue > 0) THEN "Deposit not found"
       ELSE IF ~(dep.lockEnd >= now) THEN "Deposit locked"
       ELSE "ok"

\* Variant that appends to the target and leaves the source as it is.
transferDepositCopying(caller, fromGoalId, toGoalId, depositId, pledgedIn) ==
    LET err == transferErr(caller, fromGoalId, toGoalId, depositId)
        toG == goals[toGoalId]
        newA == NewAttachment(caller, depositId, isDepositPledged(pledgedIn, caller, depositId))
    IN IF err # "ok" THEN Revert(Receipt("transferDeposit", caller, fromGoalId, toGoalId, caller, <<depositId>>, err))
       ELSE /\ attachments' = [attachments EXCEPT ![toGoalId] = Append(@, newA)]
            /\ depositToGoal' = [depositToGoal EXCEPT
                                    ![depositKey(toG.vault, caller, depositId)] = toGoalId]
            /\ last' = Receipt("transferDeposit", caller, fromGoalId, toGoalId, caller, <<depositId>>, "ok")
            /\ UNCHANGED <<database, now, recorded, goalCounter, goals, quicksaveGoalOf, config>>

transferDeposit(caller, fromGoalId, toGoalId, depositId, pledgedIn) ==
    LET err == transferErr(caller, fromGoalId, toGoalId, depositId)
        fromG == goals[fromGoalId]
        toG == goals[toGoalId]
        idx == findAttachment(attachments[fromGoalId], caller, depositId)
        newA == NewAttachment(caller, depositId, isDepositPledged(pledgedIn, caller, depositId))
    IN IF err # "ok" THEN Revert(Receipt("transferDeposit", caller, fromGoalId, toGoalId, caller, <<depositId>>, err))
       ELSE /\ attachments' = [attachments EXCEPT
                                 ![fromGoalId] = swapPop(@, idx),
                                 ![toGoalId] = Append(@, newA)]
            /\ depositToGoal' = [[depositToGoal EXCEPT
                                    ![depositKey(fromG.vault, caller, depositId)] = 0]
                                  EXCEPT ![depositKey(toG.vault, caller, depositId)] = toGoalId]
            /\ last' = Receipt("transferDeposit", caller, fromGoalId, toGoalId, caller, <<depositId>>, "ok")
            /\ UNCHANGED <<database, now, recorded, goalCounter, goals, quicksaveGoalOf, config>>

\* ---------------------------------------------------------------- detach
\* The first loop of detachAttachments (indices are 0-based, as in the source).
\* Variant of the first loop without the descending require.
RECURSIVE detachOrderErrBoundsOnly(_, _, _)
detachOrderErrBoundsOnly(indices, len, k) ==
    IF k > Len(indices) THEN "ok"
    ELSE IF ~(indices[k] < len) THEN "Index OOB"
    ELSE detachOrderErrBoundsOnly(indices, len, k + 1)

RECURSIVE detachOrderErr(_, _, _)
detachOrderErr(indices, len, k) ==
    IF k > Len(indices) THEN "ok"
    ELSE IF ~(indices[k] < len) THEN "Index OOB"
    ELSE IF k > 1 /\ ~(indices[k] < indices[k - 1]) THEN "Indices not descending"
    ELSE detachOrderErr(indices, len, k + 1)

\* Variant of the second loop whose lock require has no cancellation bypass.
RECURSIVE detachLoopNoBypass(_, _, _, _, _, _)
detachLoopNoBypass(g, caller, indices, i, arr, d2g) ==
    IF i > Len(indices) THEN [err |-> "ok", arr |-> arr, d2g |-> d2g]
    ELSE LET idx == indices[i] + 1
             a == arr[idx]
             lockEnd == getUserDeposit(g.vault, a.owner, a.depositId).lockEnd
             err == IF ~(idx <= Len(arr)) THEN "Panic: array index out of bounds"
                    ELSE IF ~(a.owner = caller) THEN "Not owner"
                    ELSE IF a.pledged THEN "Attachment pledged"
                    ELSE IF ~(now >= lockEnd) THEN "Deposit locked"
                    ELSE "ok"
         IN IF err # "ok" THEN [err |-> err, arr |-> arr, d2g |-> d2g]
            ELSE detachLoopNoBypass(g, caller, indices, i + 1, swapPop(arr, idx),
                                    [d2g EXCEPT ![depositKey(g.vault, a.owner, a.depositId)] = 0])

\* Variant of the second loop without the require on the owner.
RECURSIVE detachLoopAnyOwner(_, _, _, _, _, _)
detachLoopAnyOwner(g, caller, indices, i, arr, d2g) ==
    IF i > Len(indices) THEN [err |-> "ok", arr |-> arr, d2g |-> d2g]
    ELSE LET idx == indices[i] + 1
             a == arr[idx]
             lockEnd == getUserDeposit(g.vault, a.owner, a.depositId).lockEnd
             err == IF ~(idx <= Len(arr)) THEN "Panic: array index out of bounds"
                    ELSE IF a.pledged THEN "Attachment pledged"
                    ELSE IF ~(g.cancelled \/ now >= lockEnd) THEN "Deposit locked"
                    ELSE "ok"
         IN IF err # "ok" THEN [err |-> err, arr |-> arr, d2g |-> d2g]
            ELSE detachLoopAnyOwner(g, caller, indices, i + 1, swapPop(arr, idx),
                                    [d2g EXCEPT ![depositKey(g.vault, a.owner, a.depositId)] = 0])

\* The second loop, from position i with the storage (arr, d2g) written so far.
RECURSIVE detachLoop(_, _, _, _, _, _)
detachLoop(g, caller, indices, i, arr, d2g) ==
    IF i > Len(indices) THEN [err |-> "ok", arr |-> arr, d2g |-> d2g]
    ELSE LET idx == indices[i] + 1
             a == arr[idx]
             lockEnd == getUserDeposit(g.vault, a.owner, a.depositId).lockEnd
             err == IF ~(idx <= Len(arr)) THEN "Panic: array index out of bounds"
                    ELSE IF ~(a.owner = caller) THEN "Not owner"
                    ELSE IF a.pledged THEN "Attachment pledged"
                    ELSE IF ~(g.cancelled \/ now >= lockEnd) THEN "Deposit locked"
                    ELSE "ok"
         IN IF err # "ok" THEN [err |-> err, arr |-> arr, d2g |-> d2g]
            ELSE detachLoop(g, caller, indices, i + 1, swapPop(arr, idx),
                            [d2g EXCEPT ![depositKey(g.vault, a.owner, a.depositId)] = 0])

\* The depositId fields of the DepositDetached events the second loop emits
\* from position i on, in a call every require of which passes. The event
\* reads a.depositId after the swap and the pop, and a is a reference to the
\* storage slot arr[idx]: the slot holds the former tail when idx was not the
\* tail, and is zeroed by pop() when it was.
RECURSIVE detachEvents(_, _, _)
detachEvents(indices, i, arr) ==
    IF i > Len(indices) THEN <<>>
    ELSE LET idx == indices[i] + 1
             after == swapPop(arr, idx)
             emitted == IF idx <= Len(after) THEN after[idx].depositId ELSE 0
         IN <<emitted>> \o detachEvents(indices, i + 1, after)

detachResult(caller, goalId, indices) ==
    LET g == goals[goalId]
        arr == attachments[goalId]
        pre == IF ~(g.id # 0) THEN "Invalid goal"
               ELSE IF ~(Len(indices) > 0) THEN "No indices"
               ELSE detachOrderErr(indices, Len(arr), 1)
    IN IF pre # "ok" THEN [err |-> pre, arr |-> arr, d2g |-> depositToGoal]
       ELSE detachLoop(g, caller, indices, 1, arr, depositToGoal)

\* pledgedIn is what the vault would report during the call; detachAttachments
\* never asks it (it reads the stored flag a.pledged only).
detachAttachments(caller, goalId, indices, pledgedIn) ==
    LET r == detachResult(caller, goalId, indices)
    IN IF r.err # "ok" THEN Revert(Receipt("detachAttachments", caller, goalId, 0, caller, indices, r.err))
       ELSE /\ attachments' = [attachments EXCEPT ![goalId] = r.arr]
            /\ depositToGoal' = r.d2g
            /\ last' = Receipt("detachAttachments", caller, goalId, 0, caller, indices, "ok")
            /\ UNCHANGED <<database, now, recorded, goalCounter, goals, quicksaveGoalOf, config>>

\* ---------------------------------------------------------- pledge report
\* Variant that takes the caller's word without asking the vault.
reportPledgedAttachmentUnconfirmed(caller, goalId, depositId, pledgedIn) ==
    LET g == goals[goalId]
        arr == attachments[goalId]
        idx == findAttachment(arr, caller, depositId)
        err == IF ~(g.id # 0) THEN "Invalid goal"
               ELSE IF idx = 0 THEN "Attachment not found"
               ELSE "ok"
    IN IF err # "ok" THEN Revert(Receipt("reportPledgedAttachment", caller, goalId, 0, caller, <<depositId>>, err))
       ELSE /\ attachments' = [attachments EXCEPT ![goalId][idx].pledged = TRUE]
            /\ last' = Receipt("reportPledgedAttachment", caller, goalId, 0, caller, <<depositId>>, "ok")
            /\ UNCHANGED <<database, now, recorded, goalCounter, goals, depositToGoal, quicksaveGoalOf, config>>

reportPledgedAttachment(caller, goalId, depositId, pledgedIn) ==
    LET g == goals[goalId]
        arr == attachments[goalId]
        idx == findAttachment(arr, caller, depositId)
        err == IF ~(g.id # 0) THEN "Invalid goal"
               ELSE IF idx = 0 THEN "Attachment not found"
               ELSE IF ~isDepositPledged(pledgedIn, caller, depositId)
                    THEN "Not pledged in vault"
               ELSE "ok"
    IN IF err # "ok" THEN Revert(Receipt("reportPledgedAttachment", caller, goalId, 0, caller, <<depositId>>, err))
       ELSE /\ attachments' = [attachments EXCEPT ![goalId][idx].pledged = TRUE]
            /\ last' = Receipt("reportPledgedAttachment", caller, goalId, 0, caller, <<depositId>>, "ok")
            /\ UNCHANGED <<database, now, recorded, goalCounter, goals, depositToGoal, quicksaveGoalOf, config>>

\* ------------------------------------------------------ cancel / finalize
\* Variant that looks at the stored flags only.
cancelErrStoredOnly(caller, goalId, pledgedIn) ==
    LET g == goals[goalId]
        arr == attachments[goalId]
    IN IF ~(g.id # 0) THEN "Invalid goal"
       ELSE IF g.cancelled THEN "Already cancelled"
       ELSE IF ~(caller = g.creator \/ hasAdminRole(caller) \/ hasBackendRole(caller))
            THEN "Not permitted"
       ELSE IF \E i \in 1..Len(arr) : arr[i].pledged THEN "Has pledged attachments"
       ELSE "ok"

\* Variant that asks the vault only and ignores the stored flags.
cancelErrVaultOnly(caller, goalId, pledgedIn) ==
    LET g == goals[goalId]
        arr == attachments[goalId]
    IN IF ~(g.id # 0) THEN "Invalid goal"
       ELSE IF g.cancelled THEN "Already cancelled"
       ELSE IF ~(caller = g.creator \/ hasAdminRole(caller) \/ hasBackendRole(caller))
            THEN "Not permitted"
       ELSE IF \E i \in 1..Len(arr) :
                  isDepositPledged(pledgedIn, arr[i].owner, arr[i].depositId)
            THEN "Has pledged attachments"
       ELSE "ok"

cancelErr(caller, goalId, pledgedIn) ==
    LET g == goals[goalId]
        arr == attachments[goalId]
    IN IF ~(g.id # 0) THEN "Invalid goal"
       ELSE IF g.cancelled THEN "Already cancelled"
       ELSE IF ~(caller = g.creator \/ hasAdminRole(caller) \/ hasBackendRole(caller))
            THEN "Not permitted"
       ELSE IF \E i \in 1..Len(arr) :
                  arr[i].pledged \/ isDepositPledged(pledgedIn, arr[i].owner, arr[i].depositId)
            THEN "Has pledged attachments"
       ELSE "ok"

\* Variant that releases the goal's attachments as it cancels.
cancelGoalReleasing(caller, goalId, pledgedIn) ==
    LET err == cancelErr(caller, goalId, pledgedIn)
    IN IF err # "ok" THEN Revert(Receipt("cancelGoal", caller, goalId, 0, caller, <<>>, err))
       ELSE /\ goals' = [goals EXCEPT ![goalId].cancelled = TRUE]
            /\ attachments' = [attachments EXCEPT ![goalId] = <<>>]
            /\ depositToGoal' = [k \in DepositKeys |->
                                    IF depositToGoal[k] = goalId THEN 0 ELSE depositToGoal[k]]
            /\ last' = Receipt("cancelGoal", caller, goalId, 0, caller, <<>>, "ok")
            /\ UNCHANGED <<database, now, recorded, goalCounter, quicksaveGoalOf, config>>

cancelGoal(caller, goalId, pledgedIn) ==
    LET err == cancelErr(caller, goalId, pledgedIn)
    IN IF err # "ok" THEN Revert(Receipt("cancelGoal", caller, goalId, 0, caller, <<>>, err))
       ELSE /\ goals' = [goals EXCEPT ![goalId].cancelled = TRUE]
            /\ last' = Receipt("cancelGoal", caller, goalId, 0, caller, <<>>, "ok")
            /\ UNCHANGED <<database, now, recorded, goalCounter, attachments, depositToGoal, quicksaveGoalOf,
                           config>>

\* _computeGoalValuePaged(g, start, end): (sum, counted); start, end 0-based.
RECURSIVE sumValues(_, _, _, _)
sumValues(g, arr, i, end) ==
    IF i >= end THEN 0
    ELSE getUserDeposit(g.vault, arr[i + 1].owner, arr[i + 1].depositId).currentValue
         + sumValues(g, arr, i + 1, end)

\* Variant whose loop runs while i <= end.
computeGoalValuePagedInclusive(g, arr, start, end) ==
    LET len == Len(arr)
        e == IF end + 1 > len THEN len ELSE end + 1
    IN IF start >= len THEN 0 ELSE sumValues(g, arr, start, e)

computeGoalValuePaged(g, arr, start, end) ==
    LET len == Len(arr)
        e == IF end > len THEN len ELSE end
    IN IF start >= len THEN 0 ELSE sumValues(g, arr, start, e)

\* Variant that asks for more than the target.
finalizeErrStrict(caller, goalId) ==
    LET g == goals[goalId]
        arr == attachments[goalId]
        totalValue == computeGoalValuePaged(g, arr, 0, Len(arr))
    IN IF ~(hasKeeperRole(caller) \/ hasAdminRole(caller)) THEN "Not allowed"
       ELSE IF ~(g.id # 0 /\ ~g.completed /\ ~g.cancelled) THEN "Invalid goal"
       ELSE IF ~(g.targetAmount > 0 /\ totalValue > g.targetAmount)
            THEN "Not completed or no target"
       ELSE notifyErr(leaderboard)

finalizeErr(caller, goalId) ==
    LET g == goals[goalId]
        arr == attachments[goalId]
        totalValue == computeGoalValuePaged(g, arr, 0, Len(arr))
    IN IF ~(hasKeeperRole(caller) \/ hasAdminRole(caller)) THEN "Not allowed"
       ELSE IF ~(g.id # 0 /\ ~g.completed /\ ~g.cancelled) THEN "Invalid goal"
       ELSE IF ~(g.targetAmount > 0 /\ totalValue >= g.targetAmount)
            THEN "Not completed or no target"
       ELSE notifyErr(leaderboard)

\* Variant that calls recordGoalCompletion without looking at the address.
finalizeGoalIfCompletedUnguarded(caller, goalId) ==
    LET err == finalizeErr(caller, goalId)
    IN IF err # "ok" THEN Revert(Receipt("finalizeGoalIfCompleted", caller, goalId, 0, caller, <<>>, err))
       ELSE /\ goals' = [goals EXCEPT ![goalId].completed = TRUE]
            /\ recorded' = [recorded EXCEPT ![goalId] = @ + 1]
            /\ last' = Receipt("finalizeGoalIfCompleted", caller, goalId, 0, caller, <<>>, "ok")
            /\ UNCHANGED <<database, now, goalCounter, attachments, depositToGoal, quicksaveGoalOf,
                           config>>

finalizeGoalIfCompleted(caller, goalId) ==
    LET err == finalizeErr(caller, goalId)
    IN IF err # "ok" THEN Revert(Receipt("finalizeGoalIfCompleted", caller, goalId, 0, caller, <<>>, err))
       ELSE /\ goals' = [goals EXCEPT ![goalId].completed = TRUE]
            /\ recorded' = IF leaderboard # ZeroAddress
                            THEN [recorded EXCEPT ![goalId] = @ + 1]
                            ELSE recorded
            /\ last' = Receipt("finalizeGoalIfCompleted", caller, goalId, 0, caller, <<>>, "ok")
            /\ UNCHANGED <<database, now, goalCounter, attachments, depositToGoal, quicksaveGoalOf,
                           config>>

\* ----------------------------------------------------------------- admin
\* Variant without the role modifier.
updateAttachmentLimitsOpen(caller, perGoal, perUser) ==
    IF ~(perGoal > 0 /\ perUser > 0)
    THEN Revert(Receipt("updateAttachmentLimits", caller, 0, 0, ZeroAddress, <<>>, "Invalid limits"))
    ELSE /\ maxAttachmentsPerGoal' = perGoal
         /\ maxAttachmentsPerUser' = perUser
         /\ last' = Receipt("updateAttachmentLimits", caller, 0, 0, ZeroAddress, <<>>, "ok")
         /\ UNCHANGED <<database, now, recorded, goalCounter, goals, attachments, depositToGoal,
                        quicksaveGoalOf, notifiers, attachmentsPaused, creationPaused,
                        leaderboard>>

updateAttachmentLimits(caller, perGoal, perUser) ==
    LET err == IF ~hasAdminRole(caller) THEN "AccessControl: missing role"
               ELSE IF ~(perGoal > 0 /\ perUser > 0) THEN "Invalid limits"
               ELSE "ok"
    IN IF err # "ok" THEN Revert(Receipt("updateAttachmentLimits", caller, 0, 0, ZeroAddress, <<>>, err))
       ELSE /\ maxAttachmentsPerGoal' = perGoal
            /\ maxAttachmentsPerUser' = perUser
            /\ last' = Receipt("updateAttachmentLimits", caller, 0, 0, ZeroAddress, <<>>, "ok")
            /\ UNCHANGED <<database, now, recorded, goalCounter, goals, attachments, depositToGoal,
                           quicksaveGoalOf, notifiers, attachmentsPaused, creationPaused,
                           leaderboard>>

setNotifier(caller, addr, allowed) ==
    LET err == IF ~hasAdminRole(caller) THEN "AccessControl: missing role"
               ELSE IF addr = ZeroAddress THEN "Invalid notifier"
               ELSE "ok"
    IN IF err # "ok" THEN Revert(Receipt("setNotifier", caller, 0, 0, addr, <<>>, err))
       ELSE /\ notifiers' = IF allowed THEN notifiers \cup {addr} ELSE notifiers \ {addr}
            /\ last' = Receipt("setNotifier", caller, 0, 0, addr, <<>>, "ok")
            /\ UNCHANGED <<database, now, recorded, goalCounter, goals, attachments, depositToGoal,
                           quicksaveGoalOf, maxAttachmentsPerGoal, maxAttachmentsPerUser,
                           attachmentsPaused, creationPaused, leaderboard>>

setLeaderboard(caller, leaderboardAddr) ==
    IF ~hasAdminRole(caller)
    THEN Revert(Receipt("setLeaderboard", caller, 0, 0, leaderboardAddr, <<>>,
                        "AccessControl: missing role"))
    ELSE /\ leaderboard' = leaderboardAddr
         /\ last' = Receipt("setLeaderboard", caller, 0, 0, leaderboardAddr, <<>>, "ok")
         /\ UNCHANGED <<database, now, recorded, goalCounter, goals, attachments, depositToGoal,
                        quicksaveGoalOf, notifiers, maxAttachmentsPerGoal,
                        maxAttachmentsPerUser, attachmentsPaused, creationPaused>>

setCreationPaused(caller, paused) ==
    IF ~hasAdminRole(caller)
    THEN Revert(Receipt("setCreationPaused", caller, 0, 0, ZeroAddress, <<>>,
                        "AccessControl: missing role"))
    ELSE /\ creationPaused' = paused
         /\ last' = Receipt("setCreationPaused", caller, 0, 0, ZeroAddress, <<>>, "ok")
         /\ UNCHANGED <<database, now, recorded, goalCounter, goals, attachments, depositToGoal,
                        quicksaveGoalOf, notifiers, maxAttachmentsPerGoal,
                        maxAttachmentsPerUser, attachmentsPaused, leaderboard>>

setAttachmentsPaused(caller, paused) ==
    IF ~hasAdminRole(caller)
    THEN Revert(Receipt("setAttachmentsPaused", caller, 0, 0, ZeroAddress, <<>>,
                        "AccessControl: missing role"))
    ELSE /\ attachmentsPaused' = paused
         /\ last' = Receipt("setAttachmentsPaused", caller, 0, 0, ZeroAddress, <<>>, "ok")
         /\ UNCHANGED <<database, now, recorded, goalCounter, goals, attachments, depositToGoal,
                        quicksaveGoalOf, notifiers, maxAttachmentsPerGoal,
                        maxAttachmentsPerUser, creationPaused, leaderboard>>

\* ----------------------------------------------------------------- views
\* Variant that sums from the first attachment whatever start is.
getGoalProgressPagedFromFirst(goalId, start, end) ==
    LET g == goals[goalId]
        sum == computeGoalValuePaged(g, attachments[goalId], 0, end)
    IN IF ~(g.id # 0) THEN [err |-> "Invalid goal"]
       ELSE IF ~(start <= end) THEN [err |-> "Invalid range"]
       ELSE [err |-> "ok", totalValue |-> sum,
             percentBps |-> IF g.targetAmount = 0 THEN 0
                            ELSE (sum * 10000) \div g.targetAmount]

\* getGoalProgressPaged(goalId, start, end): the error of the first failing
\* require, or "ok" with the pair returned (start, end 0-based, end exclusive).
getGoalProgressPaged(goalId, start, end) ==
    LET g == goals[goalId]
        sum == computeGoalValuePaged(g, attachments[goalId], start, end)
    IN IF ~(g.id # 0) THEN [err |-> "Invalid goal"]
       ELSE IF ~(start <= end) THEN [err |-> "Invalid range"]
       ELSE [err |-> "ok", totalValue |-> sum,
             percentBps |-> IF g.targetAmount = 0 THEN 0
                            ELSE (sum * 10000) \div g.targetAmount]

getGoalProgressFull(goalId) ==
    LET g == goals[goalId]
        sum == computeGoalValuePaged(g, attachments[goalId], 0, Len(attachments[goalId]))
    IN IF ~(g.id # 0) THEN [err |-> "Invalid goal"]
       ELSE [err |-> "ok", totalValue |-> sum,
             percentBps |-> IF g.targetAmount = 0 THEN 0
                            ELSE (sum * 10000) \div g.targetAmount]

\* -------------------------------------------------------- loop iterations
\* The number of loop iterations each entry point begins, counted as the code
\* runs them: an iteration whose require fails, or that breaks, is counted.

\* Variant of the page loop without the clamp of end to arr.length.
pagedIterationsUnclamped(len, start, end) ==
    IF start >= len THEN 0
    ELSE IF end > start THEN end - start ELSE 0

\* _computeGoalValuePaged: `counted`.
pagedIterations(len, start, end) ==
    LET e == IF end > len THEN len ELSE end
    IN IF start >= len THEN 0
       ELSE IF e > start THEN e - start ELSE 0

\* getGoalProgressPaged / getGoalProgressFull.
progressPagedIterations(goalId, start, end) ==
    IF ~(goals[goalId].id # 0) THEN 0
    ELSE IF ~(start <= end) THEN 0
    ELSE pagedIterations(Len(attachments[goalId]), start, end)

progressFullIterations(goalId) ==
    IF ~(goals[goalId].id # 0) THEN 0
    ELSE pagedIterations(Len(attachments[goalId]), 0, Len(attachments[goalId]))

\* The loop over depositIds from position i.
RECURSIVE attachLoopIterations(_, _, _, _, _)
attachLoopIterations(g, owner, depositIds, i, d2g) ==
    IF i > Len(depositIds) THEN 0
    ELSE IF attachOneErr(g, owner, depositIds[i], d2g) # "ok" THEN 1
    ELSE 1 + attachLoopIterations(g, owner, depositIds, i + 1,
                 [d2g EXCEPT ![depositKey(g.vault, owner, depositIds[i])] = g.id])

\* attachDeposits / attachDepositsOnBehalf past the role check: the userCount
\* loop when the requires before it pass, then the loop over depositIds.
attachIterations(goalId, owner, depositIds) ==
    LET pre == attachPreErr(goalId, owner, Len(depositIds))
        arr == attachments[goalId]
    IN IF pre = "ok"
       THEN Len(arr) + attachLoopIterations(goals[goalId], owner, depositIds, 1, depositToGoal)
       ELSE IF pre = "Per-user cap for this goal" THEN Len(arr)
       ELSE 0

\* _attachDepositOnBehalf on the goal autoAttachToQuicksave resolved: the
\* userCount loop (a goal created in the call has no attachments).
autoAttachIterations(caller, goalId) ==
    LET g == goals[goalId]
        arr == attachments[goalId]
    IN IF caller \notin notifiers THEN 0
       ELSE IF g.id = 0 THEN 0
       ELSE IF g.cancelled \/ g.completed THEN 0
       ELSE IF ~(Len(arr) + 1 <= maxAttachmentsPerGoal) THEN 0
       ELSE Len(arr)

\* transferDeposit: the search of the source, which breaks at the hit.
transferIterations(caller, fromGoalId, toGoalId, depositId) ==
    LET fromArr == attachments[fromGoalId]
        idx == findAttachment(fromArr, caller, depositId)
    IN IF transferErr(caller, fromGoalId, toGoalId, depositId)
             \in {"Same goal", "Invalid goal", "Different vaults", "Invalid goal state"}
       THEN 0
       ELSE IF idx = 0 THEN Len(fromArr) ELSE idx

\* detachAttachments: the first loop from position k ...
RECURSIVE detachOrderIterations(_, _, _)
detachOrderIterations(indices, len, k) ==
    IF k > Len(indices) THEN 0
    ELSE IF ~(indices[k] < len) THEN 1
    ELSE IF k > 1 /\ ~(indices[k] < indices[k - 1]) THEN 1
    ELSE 1 + detachOrderIterations(indices, len, k + 1)

\* ... and the second loop from position i with the storage arr.
RECURSIVE detachLoopIterations(_, _, _, _, _)
detachLoopIterations(g, caller, indices, i, arr) ==
    IF i > Len(indices) THEN 0
    ELSE IF detachLoop(g, caller, <<indices[i]>>, 1, arr, depositToGoal).err # "ok" THEN 1
    ELSE 1 + detachLoopIterations(g, caller, indices, i + 1, swapPop(arr, indices[i] + 1))

detachIterations(caller, goalId, indices) ==
    LET g == goals[goalId]
        arr == attachments[goalId]
    IN IF ~(g.id # 0) THEN 0
       ELSE IF ~(Len(indices) > 0) THEN 0
       ELSE detachOrderIterations(indices, Len(arr), 1)
            + IF detachOrderErr(indices, Len(arr), 1) # "ok" THEN 0
              ELSE detachLoopIterations(g, caller, indices, 1, arr)

\* reportPledgedAttachment: the search, which breaks at the hit.
reportIterations(caller, goalId, depositId) ==
    LET arr == attachments[goalId]
        idx == findAttachment(arr, caller, depositId)
    IN IF ~(goals[goalId].id # 0) THEN 0
       ELSE IF idx = 0 THEN Len(arr) ELSE idx

\* cancelGoal: the loop stops at the first attachment a require rejects.
cancelIterations(caller, goalId, pledgedIn) ==
    LET arr == attachments[goalId]
        bad == {i \in 1..Len(arr) :
                   arr[i].pledged \/ isDepositPledged(pledgedIn, arr[i].owner, arr[i].depositId)}
    IN IF cancelErr(caller, goalId, pledgedIn) \in {"Invalid goal", "Already cancelled", "Not permitted"}
       THEN 0
       ELSE IF bad = {} THEN Len(arr)
       ELSE CHOOSE i \in bad : \A j \in bad : i <= j

\* finalizeGoalIfCompleted: _computeGoalValuePaged(g, 0, length).
finalizeIterations(caller, goalId) ==
    IF finalizeErr(caller, goalId) \in {"Not allowed", "Invalid goal"} THEN 0
    ELSE pagedIterations(Len(attachments[goalId]), 0, Len(attachments[goalId]))

\* ------------------------------------------------------------ XP service
\* checkAndAwardXP(metaGoalId) as the steps between its awaits; each database
\* operation is atomic on its document. The reads of the chain made by one
\* helper are taken at one block.

\* checkAllGoalsCompleted(metaGoal, goalManager) over metaGoal.onChainGoals.
checkAllGoalsCompleted(onChainGoals) ==
    LET funded == {g \in onChainGoals : Len(attachments[g]) > 0}
    IN /\ \A g \in funded : ~(getGoalProgressFull(g).percentBps < 10000)
       /\ funded # {}

\* calculateContributions: per owner, the sum of the current values of the
\* owner's attachments in the meta-goal's goals, as (owner, amount) pairs.
RECURSIVE ownerValue(_, _, _, _)
ownerValue(g, arr, owner, i) ==
    IF i > Len(arr) THEN 0
    ELSE (IF arr[i].owner = owner
          THEN getUserDeposit(g.vault, arr[i].owner, arr[i].depositId).currentValue
          ELSE 0)
         + ownerValue(g, arr, owner, i + 1)

RECURSIVE goalsValue(_, _)
goalsValue(gs, owner) ==
    IF gs = {} THEN 0
    ELSE LET g == CHOOSE x \in gs : TRUE
         IN ownerValue(goals[g], attachments[g], owner, 1) + goalsValue(gs \ {g}, owner)

calculateContributions(onChainGoals) ==
    {<<u, goalsValue(onChainGoals, u)>> :
        u \in {o \in Users : \E g \in onChainGoals :
                                \E i \in 1..Len(attachments[g]) : attachments[g][i].owner = o}}

\* awardXP: one xpHistory entry per recipient.
RECURSIVE awardEntries(_, _)
awardEntries(metaGoalId, contributions) ==
    IF contributions = {} THEN <<>>
    ELSE LET e == CHOOSE x \in contributions : TRUE
         IN <<[metaGoalId |-> metaGoalId, userAddress |-> e[1], xpEarned |-> e[2]]>>
            \o awardEntries(metaGoalId, contributions \ {e})

xpReturn(c, awarded) ==
    xpCalls' = [xpCalls EXCEPT ![c].pc = "returned", ![c].awarded = awarded]

\* Variant whose first step sets the flag without looking at it.
xpClaimUnconditional(c, metaGoalId) ==
    /\ xpCalls[c].pc = "idle"
    /\ IF metaGoalId \in MetaGoalDocs
       THEN /\ xpAwarded' = [xpAwarded EXCEPT ![metaGoalId] = TRUE]
            /\ xpCalls' = [xpCalls EXCEPT ![c].pc = "check", ![c].metaGoalId = metaGoalId]
       ELSE /\ xpCalls' = [xpCalls EXCEPT ![c].pc = "returned", ![c].metaGoalId = metaGoalId,
                                          ![c].awarded = "false"]
            /\ UNCHANGED xpAwarded
    /\ UNCHANGED <<xpHistory, now, recorded, contract, last>>

\* findOneAndUpdate({metaGoalId, xpAwarded: {$ne: true}}, {$set: {xpAwarded:
\* true}}) and the return on null.
xpClaim(c, metaGoalId) ==
    /\ xpCalls[c].pc = "idle"
    /\ IF metaGoalId \in MetaGoalDocs /\ xpAwarded[metaGoalId] # TRUE
       THEN /\ xpAwarded' = [xpAwarded EXCEPT ![metaGoalId] = TRUE]
            /\ xpCalls' = [xpCalls EXCEPT ![c].pc = "check", ![c].metaGoalId = metaGoalId]
       ELSE /\ xpCalls' = [xpCalls EXCEPT ![c].pc = "returned", ![c].metaGoalId = metaGoalId,
                                          ![c].awarded = "false"]
            /\ UNCHANGED xpAwarded
    /\ UNCHANGED <<xpHistory, now, recorded, contract, last>>

\* await checkAllGoalsCompleted(...) and the branch on its result.
xpCheck(c) ==
    /\ xpCalls[c].pc = "check"
    /\ xpCalls' = [xpCalls EXCEPT ![c].pc =
                      IF checkAllGoalsCompleted(GoalIds) THEN "award" ELSE "revert"]
    /\ UNCHANGED <<xpAwarded, xpHistory, now, recorded, contract, last>>

\* A read of the chain rejects: the call ends with the exception.
xpCheckThrows(c) ==
    /\ xpCalls[c].pc = "check"
    /\ xpCalls' = [xpCalls EXCEPT ![c].pc = "threw"]
    /\ UNCHANGED <<xpAwarded, xpHistory, now, recorded, contract, last>>

\* updateOne({metaGoalId}, {$set: {xpAwarded: false}}); return {awarded: false}.
xpRevert(c) ==
    /\ xpCalls[c].pc = "revert"
    /\ xpAwarded' = [xpAwarded EXCEPT ![xpCalls[c].metaGoalId] = FALSE]
    /\ xpReturn(c, "false")
    /\ UNCHANGED <<xpHistory, now, recorded, contract, last>>

\* calculateContributions, then awardXP.
xpAward(c) ==
    /\ xpCalls[c].pc = "award"
    /\ LET contributions == calculateContributions(GoalIds)
       IN /\ xpHistory' = xpHistory \o awardEntries(xpCalls[c].metaGoalId, contributions)
          /\ xpCalls' = [xpCalls EXCEPT ![c].pc = "mark", ![c].credited = TRUE,
                                        ![c].recipients = contributions]
    /\ UNCHANGED <<xpAwarded, now, recorded, contract, last>>

\* updateOne({metaGoalId, xpAwarded: {$ne: true}}, {$set: {xpAwarded: true}})
\* and the return on modifiedCount.
xpMark(c) ==
    /\ xpCalls[c].pc = "mark"
    /\ LET m == xpCalls[c].metaGoalId
       IN IF xpAwarded[m] # TRUE
          THEN /\ xpAwarded' = [xpAwarded EXCEPT ![m] = TRUE]
               /\ xpReturn(c, "true")
          ELSE /\ UNCHANGED xpAwarded
               /\ xpReturn(c, "false")
    /\ UNCHANGED <<xpHistory, now, recorded, contract, last>>

\* ------------------------------------------------------------------ time
\* The block times at which transactions are submitted: the deployment's, the
\* day after, and both again MIN_LOCK_PERIOD later.
BlockTimes == {StartTime, StartTime + 1,
               StartTime + MIN_LOCK_PERIOD, StartTime + MIN_LOCK_PERIOD + 1}

\* block.timestamp moves on to a later block between two transactions.
Tick ==
    /\ Idle
    /\ \E t \in BlockTimes : t > now /\ now' = t
    /\ UNCHANGED <<database, recorded, contract, last>>

\* ------------------------------------------------------------ call inputs
Range(s) == {s[i] : i \in 1..Len(s)}
RECURSIVE SeqsUpTo(_, _)
SeqsUpTo(S, n) ==
    IF n = 0 THEN {<<>>}
    ELSE SeqsUpTo(S, n - 1) \cup
         {Append(s, x) : s \in {t \in SeqsUpTo(S, n - 1) : Len(t) = n - 1}, x \in S}
DepositIdLists == SeqsUpTo(DepositIds, MaxBatch)
\* Index lists over the positions of a goal and the first one past them.
IndexLists(goalId) == SeqsUpTo(0..Len(attachments[goalId]), MaxBatch)
\* The (owner, depositId) the vault may report pledged during a call naming ids.
PledgeReports(owner, ids) == SUBSET {<<owner, d>> : d \in ids}
AttachedPairs(goalId) ==
    {<<attachments[goalId][i].owner, attachments[goalId][i].depositId>> :
        i \in 1..Len(attachments[goalId])}

\* Transactions are submitted one at a time, each once the receipt of the
\* previous one has been taken.
CreateGoalCalls ==
    Idle /\ \E v \in Vaults, d \in {0, now + MIN_LOCK_PERIOD - 1} : createGoal("u1", v, 2, d)

CreateGoalForCalls ==
    Idle /\ \E c \in {Backend, "u2"} : createGoalFor(c, "u1", "vA", 2, 0)

CreateQuicksaveCalls ==
    Idle /\ \E c \in {Backend, "u2"}, u \in Users : createQuicksaveGoalFor(c, u, "vA")

AttachCalls ==
    Idle /\ \E c \in Users, g \in GoalIds, ids \in DepositIdLists :
               \E p \in PledgeReports(c, Range(ids)) : attachDeposits(c, g, ids, p)

OnBehalfCalls ==
    Idle /\ \E g \in GoalIds, o \in Users, ids \in DepositIdLists :
               \E p \in PledgeReports(o, Range(ids)) :
                  attachDepositsOnBehalf(Backend, g, o, ids, p)

OnBehalfDenied ==
    Idle /\ \E g \in GoalIds : attachDepositsOnBehalf("u1", g, "u1", <<1>>, {})

AutoAttachCalls ==
    Idle /\ \E c \in {Notifier, Backend}, u \in Users, d \in DepositIds :
               \E p \in PledgeReports(u, {d}) : autoAttachToQuicksave(c, u, "vA", d, p)

TransferCalls ==
    Idle /\ \E c \in Users, f \in GoalIds, t \in GoalIds, d \in DepositIds :
               \E p \in PledgeReports(c, {d}) : transferDeposit(c, f, t, d, p)

DetachCalls ==
    Idle /\ \E c \in Users, g \in GoalIds :
               \E ix \in IndexLists(g), p \in {{}, AttachedPairs(g)} :
                  detachAttachments(c, g, ix, p)

ReportCalls ==
    Idle /\ \E c \in Users, g \in GoalIds, d \in DepositIds :
               \E p \in PledgeReports(c, {d}) : reportPledgedAttachment(c, g, d, p)

CancelCalls ==
    Idle /\ \E c \in Users \cup {Admin}, g \in GoalIds :
               \E p \in SUBSET AttachedPairs(g) : cancelGoal(c, g, p)

FinalizeCalls ==
    Idle /\ \E c \in {Admin, "u1"}, g \in GoalIds : finalizeGoalIfCompleted(c, g)

Next ==
    \/ CreateGoalCalls \/ CreateGoalForCalls \/ CreateQuicksaveCalls
    \/ AttachCalls \/ OnBehalfCalls \/ OnBehalfDenied \/ AutoAttachCalls
    \/ TransferCalls \/ DetachCalls \/ ReportCalls \/ CancelCalls \/ FinalizeCalls
    \/ Ack

Spec == Init /\ [][Next]_vars

\* The same transactions from a deployment with the wider caps.
SpecBatch == InitBatch /\ [][Next]_vars

\* Every transaction but transferDeposit.
NextNoTransfer ==
    \/ CreateGoalCalls \/ CreateGoalForCalls \/ CreateQuicksaveCalls
    \/ AttachCalls \/ OnBehalfCalls \/ OnBehalfDenied \/ AutoAttachCalls
    \/ DetachCalls \/ ReportCalls \/ CancelCalls \/ FinalizeCalls
    \/ Ack

SpecNoTransfer == Init /\ [][NextNoTransfer]_vars

SetLeaderboardCalls ==
    Idle /\ \E c \in {Admin, "u1"}, a \in Leaderboards : setLeaderboard(c, a)

\* The transactions that call the leaderboard, those that make and end goals,
\* and the admin's choice of leaderboard.
NextSink ==
    \/ CreateGoalCalls \/ CreateQuicksaveCalls
    \/ AttachCalls \/ OnBehalfCalls \/ OnBehalfDenied \/ AutoAttachCalls
    \/ CancelCalls \/ FinalizeCalls \/ SetLeaderboardCalls
    \/ Ack

SpecSink == Init /\ [][NextSink]_vars

SetNotifierCalls ==
    Idle /\ \E c \in {Admin, "u1"}, a \in {Notifier, Backend, ZeroAddress}, allowed \in BOOLEAN :
               setNotifier(c, a, allowed)

\* The default-goal transactions, with the admin editing the notifier
\* whitelist, from the deployment with the wider caps.
NextQuicksave ==
    \/ CreateQuicksaveCalls \/ AutoAttachCalls
    \/ DetachCalls \/ CancelCalls \/ SetNotifierCalls
    \/ Ack

SpecQuicksave == InitBatch /\ [][NextQuicksave]_vars

SetCreationPausedCalls ==
    Idle /\ \E c \in {Admin, "u1"}, paused \in BOOLEAN : setCreationPaused(c, paused)

SetAttachmentsPausedCalls ==
    Idle /\ \E c \in {Admin, "u1"}, paused \in BOOLEAN : setAttachmentsPaused(c, paused)

\* The transactions that make goals and attachments, with the admin pausing
\* and resuming creation and attachment.
NextPause ==
    \/ CreateGoalCalls \/ CreateGoalForCalls \/ CreateQuicksaveCalls
    \/ AttachCalls \/ OnBehalfCalls \/ AutoAttachCalls \/ TransferCalls
    \/ SetCreationPausedCalls \/ SetAttachmentsPausedCalls
    \/ Ack

SpecPause == Init /\ [][NextPause]_vars

\* createGoal with a target date left unset, one day short of the minimum
\* horizon, and exactly at it.
DatedGoalCalls ==
    Idle /\ \E d \in {0, now + MIN_LOCK_PERIOD - 1, now + MIN_LOCK_PERIOD} :
               createGoal("u1", "vA", 2, d)

\* Attach calls that name one deposit, which the vault reports unpledged.
AttachOneCalls ==
    Idle /\ \E c \in Users, g \in GoalIds, d \in DepositIds :
               attachDeposits(c, g, <<d>>, {})

OnBehalfOneCalls ==
    Idle /\ \E g \in GoalIds, o \in Users, d \in DepositIds :
               attachDepositsOnBehalf(Backend, g, o, <<d>>, {})

\* The transactions that make goals and attach to them as time passes.
NextClock ==
    \/ DatedGoalCalls \/ CreateQuicksaveCalls
    \/ AttachOneCalls \/ OnBehalfOneCalls \/ AutoAttachCalls
    \/ Tick \/ Ack

SpecClock == Init /\ [][NextClock]_vars

\* The calls of one owner, "u1", and of the backend and the notifier for that
\* owner, with every pledge report the vault may give.
GoalU1Calls ==
    Idle /\ createGoal("u1", "vA", 2, 0)

QuicksaveU1Calls ==
    Idle /\ createQuicksaveGoalFor(Backend, "u1", "vA")

AttachU1Calls ==
    Idle /\ \E g \in GoalIds, ids \in DepositIdLists :
               \E p \in PledgeReports("u1", Range(ids)) : attachDeposits("u1", g, ids, p)

OnBehalfU1Calls ==
    Idle /\ \E g \in GoalIds, ids \in DepositIdLists :
               \E p \in PledgeReports("u1", Range(ids)) :
                  attachDepositsOnBehalf(Backend, g, "u1", ids, p)

AutoAttachU1Calls ==
    Idle /\ \E d \in DepositIds :
               \E p \in PledgeReports("u1", {d}) :
                  autoAttachToQuicksave(Notifier, "u1", "vA", d, p)

TransferU1Calls ==
    Idle /\ \E f \in GoalIds, t \in GoalIds, d \in DepositIds :
               \E p \in PledgeReports("u1", {d}) : transferDeposit("u1", f, t, d, p)

\* One owner attaching and moving deposits as time passes, from the
\* deployment with the wider caps.
NextPledge ==
    \/ GoalU1Calls \/ QuicksaveU1Calls
    \/ AttachU1Calls \/ OnBehalfU1Calls \/ AutoAttachU1Calls \/ TransferU1Calls
    \/ Tick \/ Ack

SpecPledge == InitBatch /\ [][NextPledge]_vars

\* createGoal with a target no attached value divides evenly.
TargetGoalCalls ==
    Idle /\ \E v \in Vaults : createGoal("u1", v, 3, 0)

\* Goals filling up, from the deployment with the wider caps.
NextProgress ==
    \/ TargetGoalCalls \/ CreateQuicksaveCalls
    \/ AttachOneCalls \/ AutoAttachCalls
    \/ Ack

SpecProgress == InitBatch /\ [][NextProgress]_vars

\* The five administrative calls, made by the admin and by those who are not:
\* the backend, a keeper, a notifier, a goal creator.
AdminCallers == {Admin, Backend, Keeper, Notifier, "u1"}

TryCreationPaused ==
    Idle /\ \E c \in AdminCallers, paused \in BOOLEAN : setCreationPaused(c, paused)

TryAttachmentsPaused ==
    Idle /\ \E c \in AdminCallers, paused \in BOOLEAN : setAttachmentsPaused(c, paused)

TryLimits ==
    Idle /\ \E c \in AdminCallers, perGoal \in {0, CapGoal}, perUser \in {CapUser, CapUser + 1} :
               updateAttachmentLimits(c, perGoal, perUser)

TryNotifier ==
    Idle /\ \E c \in AdminCallers, a \in {Notifier, ZeroAddress}, allowed \in BOOLEAN :
               setNotifier(c, a, allowed)

TryLeaderboard ==
    Idle /\ \E c \in AdminCallers, a \in {ZeroAddress, LbOk} : setLeaderboard(c, a)

DetachU1Calls ==
    Idle /\ \E g \in GoalIds : \E ix \in IndexLists(g) : detachAttachments("u1", g, ix, {})

CancelU1Calls ==
    Idle /\ \E c \in {"u1", Keeper}, g \in GoalIds : cancelGoal(c, g, {})

FinalizeKeeperCalls ==
    Idle /\ \E c \in {Keeper, "u1"}, g \in GoalIds : finalizeGoalIfCompleted(c, g)

\* The administrative calls among the transactions of one owner.
NextAdmin ==
    \/ TryCreationPaused \/ TryAttachmentsPaused \/ TryLimits \/ TryNotifier
    \/ TryLeaderboard
    \/ GoalU1Calls \/ QuicksaveU1Calls
    \/ AttachU1Calls \/ AutoAttachU1Calls
    \/ DetachU1Calls \/ CancelU1Calls \/ FinalizeKeeperCalls
    \/ Ack

SpecAdmin == Init /\ [][NextAdmin]_vars

\* The admin names the calling-back leaderboard and whitelists it.
ReenteringLeaderboardCalls ==
    Idle /\ \E a \in {ZeroAddress, LbReentering} : setLeaderboard(Admin, a)

WhitelistLeaderboardCalls ==
    Idle /\ \E allowed \in BOOLEAN : setNotifier(Admin, LbReentering, allowed)

\* What the leaderboard may ask for when it calls back.
Callbacks == [user : Users, vault : {"vA"}, depositId : DepositIds]

ReenteredAttachCalls ==
    Idle /\ \E c \in Users, g \in GoalIds, ids \in DepositIdLists, cb \in Callbacks :
               /\ quicksaveGoalOf[<<cb.vault, cb.user>>] = 0 => goalCounter <= MaxGoals
               /\ attachDepositsReentered(c, g, ids, {}, cb)

\* Attaching while the leaderboard may call back, from the deployment with
\* the wider caps.
NextReentry ==
    \/ ReenteringLeaderboardCalls \/ WhitelistLeaderboardCalls
    \/ GoalU1Calls \/ QuicksaveU1Calls
    \/ ReenteredAttachCalls
    \/ Ack

SpecReentry == InitBatch /\ [][NextReentry]_vars

FundingCalls ==
    Idle /\ \E c \in Users, d \in DepositIds : attachDeposits(c, 1, <<d>>, {})

XpClaimCalls == Idle /\ \E c \in CallIds, m \in MetaGoalIds : xpClaim(c, m)
XpCheckCalls == Idle /\ \E c \in CallIds : xpCheck(c)
XpCheckFailures == Idle /\ \E c \in CallIds : xpCheckThrows(c)
XpRevertCalls == Idle /\ \E c \in CallIds : xpRevert(c)
XpAwardCalls == Idle /\ \E c \in CallIds : xpAward(c)
XpMarkCalls == Idle /\ \E c \in CallIds : xpMark(c)

\* Concurrent checkAndAwardXP calls while a goal of the meta-goal fills up.
NextXP ==
    \/ GoalU1Calls \/ FundingCalls \/ Ack
    \/ XpClaimCalls \/ XpCheckCalls \/ XpCheckFailures
    \/ XpRevertCalls \/ XpAwardCalls \/ XpMarkCalls

SpecXP == InitBatch /\ [][NextXP]_vars

\* ============================================================ properties
Terminal(g) == goals[g].cancelled \/ goals[g].completed
AttachOps == {"attachDeposits", "attachDepositsOnBehalf", "autoAttachToQuicksave"}
Holds(g, owner, depositId) ==
    \E i \in 1..Len(attachments[g]) :
        attachments[g][i].owner = owner /\ attachments[g][i].depositId = depositId
\* The places (goal, position) at which the deposit k = (vault, owner, depositId) stands.
Occurrences(k) ==
    UNION {{<<g, i>> : i \in {j \in 1..Len(attachments[g]) :
                                 /\ goals[g].vault = k[1]
                                 /\ attachments[g][j].owner = k[2]
                                 /\ attachments[g][j].depositId = k[3]}} : g \in GoalIds}

\* C1: in every reachable state each (vault, owner, depositId) stands in the
\* attachment sequence of at most one goal, and at most once in it.
C1_Uniqueness == \A k \in DepositKeys : Cardinality(Occurrences(k)) <= 1

\* An attach was rejected because another goal of the vault holds the deposit.
C1_Witness ==
    /\ last.op \in AttachOps
    /\ last.err = "Deposit already attached"
    /\ \E h \in GoalIds \ {last.goalId} :
          /\ goals[h].vault = goals[last.goalId].vault
          /\ \E i \in 1..Len(last.ids) : Holds(h, last.owner, last.ids[i])

\* C2: depositToGoal[(vault, owner, depositId)] = g, g # 0, exactly when goal g
\* has that vault and holds an attachment (owner, depositId); as this holds
\* after every transaction, committed or reverted, none updates the index
\* without the sequences or the sequences without the index.
C2_IndexAgrees ==
    \A k \in DepositKeys, g \in GoalIds :
        (depositToGoal[k] = g) <=> (goals[g].vault = k[1] /\ Holds(g, k[2], k[3]))

\* A detach removed position 0 of a goal that still holds an attachment (the
\* tail was moved into the freed slot).
C2_Witness ==
    /\ last.op = "detachAttachments"
    /\ last.err = "ok"
    /\ last.ids = <<0>>
    /\ Len(attachments[last.goalId]) >= 1

\* C3: no goal is cancelled and completed at once (so the second call of
\* cancel-then-finalize and of finalize-then-cancel never succeeds).
C3_CancelledCompletedExclusive ==
    \A g \in GoalIds : ~(goals[g].cancelled /\ goals[g].completed)

\* C4: once a goal is Cancelled or Completed it stays so, no attach, transfer
\* (from it or into it) or finalize naming it succeeds, and its attachment
\* sequence gains no element.
C4_TerminalMonotone ==
    [][\A g \in GoalIds :
          Terminal(g) =>
             /\ Terminal(g)'
             /\ Len(attachments'[g]) <= Len(attachments[g])
             /\ \A i \in 1..Len(attachments'[g]) :
                   Holds(g, attachments'[g][i].owner, attachments'[g][i].depositId)
             /\ ( \/ last'.op \in AttachOps \cup {"finalizeGoalIfCompleted"} /\ last'.goalId = g
                  \/ last'.op = "transferDeposit" /\ g \in {last'.goalId, last'.to} )
                => last'.err # "ok"]_vars

\* A transfer of an attachment the caller holds was rejected because its
\* target goal is terminal.
C4_Witness ==
    /\ last.op = "transferDeposit"
    /\ last.err = "Invalid goal state"
    /\ Terminal(last.to)
    /\ ~Terminal(last.goalId)
    /\ Holds(last.goalId, last.caller, last.ids[1])

\* Some attachment named by the indices ix of goal g is in the pledge report p.
NamesPledged(g, ix, p) ==
    \E k \in 1..Len(ix) :
        /\ ix[k] < Len(attachments[g])
        /\ <<attachments[g][ix[k] + 1].owner, attachments[g][ix[k] + 1].depositId>> \in p

\* C5: no detachAttachments and no transferDeposit succeeds for an attachment
\* whose deposit the vault reports as pledged during the call.
C5_PledgedNeverLeaves ==
    [][Idle =>
        /\ \A c \in Users, g \in GoalIds :
              \A ix \in IndexLists(g), p \in SUBSET AttachedPairs(g) :
                 (detachAttachments(c, g, ix, p) /\ NamesPledged(g, ix, p))
                    => last'.err # "ok"
        /\ \A c \in Users, f \in GoalIds, t \in GoalIds, d \in DepositIds :
              (transferDeposit(c, f, t, d, {<<c, d>>}) /\ Holds(f, c, d))
                 => last'.err # "ok"]_vars

\* C6: without transfers and with the caps as initialized, every goal holds at
\* most maxAttachmentsPerGoal attachments and at most maxAttachmentsPerUser of
\* any one owner.
C6_Capacity ==
    \A g \in GoalIds :
        /\ Len(attachments[g]) <= maxAttachmentsPerGoal
        /\ \A o \in Users : userCount(attachments[g], o) <= maxAttachmentsPerUser

\* An attach was rejected by the per-user cap of a goal with room left under
\* the per-goal cap.
C6_Witness ==
    /\ last.op \in AttachOps
    /\ last.err \in {"Per-user cap for this goal", "Per-user cap"}
    /\ userCount(attachments[last.goalId], last.owner) = maxAttachmentsPerUser
    /\ Len(attachments[last.goalId]) < maxAttachmentsPerGoal

\* C7: a transferDeposit succeeds only if the target has room under the
\* per-goal cap and the caller has room in the target under the per-user cap.
C7_TransferEnforcesCaps ==
    [][(last'.op = "transferDeposit" /\ last'.err = "ok") =>
          /\ Len(attachments[last'.to]) + 1 <= maxAttachmentsPerGoal
          /\ userCount(attachments[last'.to], last'.caller) + 1 <= maxAttachmentsPerUser]_vars

\* Some id of the batch fails its check against goal g: zero current value,
\* lock already expired on a targeted goal, attached to a goal of the vault,
\* repeated in the list, or a cap exceeded by the batch.
BatchBad(g, o, ids) ==
    LET vault == goals[g].vault
        n == Len(ids)
    IN \/ \E i \in 1..n : getUserDeposit(vault, o, ids[i]).currentValue = 0
       \/ goals[g].targetAmount > 0
          /\ \E i \in 1..n : getUserDeposit(vault, o, ids[i]).lockEnd < now
       \/ \E i \in 1..n : \E h \in GoalIds : goals[h].vault = vault /\ Holds(h, o, ids[i])
       \/ \E i \in 1..n : \E j \in 1..n : i < j /\ ids[i] = ids[j]
       \/ Len(attachments[g]) + n > maxAttachmentsPerGoal
       \/ userCount(attachments[g], o) + n > maxAttachmentsPerUser

\* C8: an attachDeposits / attachDepositsOnBehalf call with a failing id
\* fails; a failed call leaves every attachment sequence and the index as
\* they were; a successful one appends exactly the listed ids, in list order,
\* with the owner given, and maps exactly those deposits to the goal.
C8_AttachAllOrNothing ==
    [][last'.op \in {"attachDeposits", "attachDepositsOnBehalf"} =>
          LET g == last'.goalId
              o == last'.owner
              ids == last'.ids
              old == Len(attachments[g])
          IN /\ (goals[g].id # 0 /\ BatchBad(g, o, ids)) => last'.err # "ok"
             /\ last'.err # "ok" => UNCHANGED <<attachments, depositToGoal>>
             /\ last'.err = "ok" =>
                   /\ Len(attachments'[g]) = old + Len(ids)
                   /\ SubSeq(attachments'[g], 1, old) = attachments[g]
                   /\ \A i \in 1..Len(ids) :
                         /\ attachments'[g][old + i].owner = o
                         /\ attachments'[g][old + i].depositId = ids[i]
                   /\ \A h \in GoalIds \ {g} : attachments'[h] = attachments[h]
                   /\ depositToGoal' =
                         [k \in DepositKeys |->
                             IF k \in {<<goals[g].vault, o, ids[i]>> : i \in 1..Len(ids)}
                             THEN g ELSE depositToGoal[k]]]_vars

\* A batch of two distinct ids was rejected at its second id: the first id
\* had passed its checks and is attached nowhere.
C8_Witness ==
    /\ last.op = "attachDeposits"
    /\ Len(last.ids) = 2
    /\ last.ids[1] # last.ids[2]
    /\ last.err = "Deposit already attached"
    /\ depositToGoal[<<goals[last.goalId].vault, last.owner, last.ids[1]>>] = 0
    /\ depositToGoal[<<goals[last.goalId].vault, last.owner, last.ids[2]>>] # 0

\* The attachment at 0-based index i of goal g passes detach's ownership,
\* pledge and lock checks for caller c.
Detachable(g, c, i) ==
    LET a == attachments[g][i + 1]
    IN /\ a.owner = c
       /\ ~a.pledged
       /\ goals[g].cancelled \/ now >= getUserDeposit(goals[g].vault, a.owner, a.depositId).lockEnd

StrictlyDescending(ix) == \A k \in 2..Len(ix) : ix[k] < ix[k - 1]
InRange(ix, n) == \A k \in 1..Len(ix) : ix[k] < n

\* C9: a detachAttachments call with a non-empty strictly descending list of
\* in-range indices whose attachments pass the ownership, pledge and lock
\* checks succeeds and leaves the goal with exactly the attachments that did
\* not stand at the given positions (as a multiset), unmaps exactly the
\* removed deposits in the index and leaves the other goals as they were.
C9_DetachExact ==
    [][last'.op = "detachAttachments" =>
          LET g == last'.goalId
              ix == last'.ids
              arr == attachments[g]
              gone == {ix[k] + 1 : k \in 1..Len(ix)}
              kept == (1..Len(arr)) \ gone
          IN (/\ goals[g].id # 0
              /\ Len(ix) > 0
              /\ StrictlyDescending(ix)
              /\ InRange(ix, Len(arr))
              /\ \A k \in 1..Len(ix) : Detachable(g, last'.caller, ix[k]))
             => /\ last'.err = "ok"
                /\ Len(attachments'[g]) = Cardinality(kept)
                /\ \A a \in Range(arr) \cup Range(attachments'[g]) :
                      Cardinality({i \in 1..Len(attachments'[g]) : attachments'[g][i] = a})
                         = Cardinality({i \in kept : arr[i] = a})
                /\ \A h \in GoalIds \ {g} : attachments'[h] = attachments[h]
                /\ depositToGoal' =
                      [k \in DepositKeys |->
                          IF k \in {<<goals[g].vault, arr[i].owner, arr[i].depositId>> : i \in gone}
                          THEN 0 ELSE depositToGoal[k]]]_vars

\* Indices [2, 0] were detached from a goal of three attachments: the one
\* that stood in the middle is what is left.
C9_Witness ==
    /\ last.op = "detachAttachments"
    /\ last.err = "ok"
    /\ last.ids = <<2, 0>>
    /\ Len(attachments[last.goalId]) = 1

\* C10: a detachAttachments call whose index list is empty, not strictly
\* descending or holds an index >= the attachment count fails, and the
\* attachment sequences and the index are as before.
C10_BadIndexListFails ==
    [][last'.op = "detachAttachments" =>
          LET g == last'.goalId
              ix == last'.ids
          IN (Len(ix) = 0 \/ ~StrictlyDescending(ix) \/ ~InRange(ix, Len(attachments[g])))
             => /\ last'.err # "ok"
                /\ UNCHANGED <<attachments, depositToGoal>>]_vars

\* An ascending list [0, 1] naming two attachments the caller could detach
\* one by one was rejected for its order.
C10_Witness ==
    /\ last.op = "detachAttachments"
    /\ last.err = "Indices not descending"
    /\ last.ids = <<0, 1>>
    /\ Len(attachments[last.goalId]) >= 2
    /\ Detachable(last.goalId, last.caller, 0)
    /\ Detachable(last.goalId, last.caller, 1)

\* The deposit of the attachment at 0-based index i of goal g is still locked.
StillLocked(g, i) ==
    LET a == attachments[g][i + 1]
    IN now < getUserDeposit(goals[g].vault, a.owner, a.depositId).lockEnd

\* C11: on a goal that is not Cancelled a detachAttachments naming an
\* attachment whose deposit is still locked (now < lockEnd) fails and removes
\* nothing, with "Deposit locked" when the caller owns it and it is not
\* pledged; a cancelGoal by a permitted caller on a goal not yet cancelled
\* with no pledged attachment succeeds; on a Cancelled goal a well-formed
\* detach of the caller's unpledged attachments succeeds whatever their lockEnd.
C11_LockAndBypass ==
    [][/\ last'.op = "detachAttachments" =>
             LET g == last'.goalId
                 ix == last'.ids
                 c == last'.caller
                 n == Len(attachments[g])
             IN /\ (/\ goals[g].id # 0
                    /\ ~goals[g].cancelled
                    /\ \E k \in 1..Len(ix) : ix[k] < n /\ StillLocked(g, ix[k]))
                   => last'.err # "ok" /\ UNCHANGED <<attachments, depositToGoal>>
                /\ (/\ goals[g].id # 0
                    /\ ~goals[g].cancelled
                    /\ Len(ix) = 1
                    /\ ix[1] < n
                    /\ attachments[g][ix[1] + 1].owner = c
                    /\ ~attachments[g][ix[1] + 1].pledged
                    /\ StillLocked(g, ix[1]))
                   => last'.err = "Deposit locked"
                /\ (/\ goals[g].cancelled
                    /\ Len(ix) > 0
                    /\ StrictlyDescending(ix)
                    /\ InRange(ix, n)
                    /\ \A k \in 1..Len(ix) :
                          /\ attachments[g][ix[k] + 1].owner = c
                          /\ ~attachments[g][ix[k] + 1].pledged)
                   => /\ last'.err = "ok"
                      /\ \A k \in 1..Len(ix) :
                            \A j \in 1..Len(attachments'[g]) :
                               ~(/\ attachments'[g][j].owner = c
                                 /\ attachments'[g][j].depositId =
                                       attachments[g][ix[k] + 1].depositId)
       /\ Idle =>
             \A c \in Users \cup {Admin}, g \in GoalIds :
                (/\ cancelGoal(c, g, {})
                 /\ goals[g].id # 0
                 /\ ~goals[g].cancelled
                 /\ c = goals[g].creator \/ c = Admin
                 /\ \A i \in 1..Len(attachments[g]) : ~attachments[g][i].pledged)
                => last'.err = "ok" /\ goals'[g].cancelled]_vars

\* The owner detached from a cancelled goal of vault vA: u1's deposit 2 is
\* still attached somewhere, so what was removed is u1's deposit 1, which is
\* still locked.
C11_Witness ==
    /\ last.op = "detachAttachments"
    /\ last.err = "ok"
    /\ last.caller = "u1"
    /\ last.ids = <<0>>
    /\ goals[last.goalId].cancelled
    /\ goals[last.goalId].vault = "vA"
    /\ depositToGoal[<<"vA", "u1", 2>>] # 0
    /\ depositToGoal[<<"vA", "u1", 1>>] = 0
    /\ now < getUserDeposit("vA", "u1", 1).lockEnd

\* Goal g holds a pledged attachment (owner, depositId).
HoldsPledged(g, owner, depositId) ==
    \E i \in 1..Len(attachments[g]) :
        /\ attachments[g][i].owner = owner
        /\ attachments[g][i].depositId = depositId
        /\ attachments[g][i].pledged

\* C12: an attachment whose stored pledged flag is set is, after every step,
\* still in its goal with the flag set; every detachAttachments and
\* transferDeposit naming it fails, with "Attachment pledged" when the
\* requires checked before the flag pass, whatever the vault reports.
C12_PledgedPinned ==
    [][/\ \A g \in GoalIds, o \in Users, d \in DepositIds :
             HoldsPledged(g, o, d) => HoldsPledged(g, o, d)'
       /\ last'.op = "detachAttachments" =>
             LET g == last'.goalId
                 ix == last'.ids
                 n == Len(attachments[g])
             IN /\ (\E k \in 1..Len(ix) : ix[k] < n /\ attachments[g][ix[k] + 1].pledged)
                   => last'.err # "ok"
                /\ (/\ Len(ix) = 1
                    /\ ix[1] < n
                    /\ attachments[g][ix[1] + 1].pledged
                    /\ attachments[g][ix[1] + 1].owner = last'.caller)
                   => last'.err = "Attachment pledged"
       /\ last'.op = "transferDeposit" =>
             LET f == last'.goalId
                 t == last'.to
             IN HoldsPledged(f, last'.caller, last'.ids[1]) =>
                   /\ last'.err # "ok"
                   /\ (/\ f # t
                       /\ goals[t].id # 0
                       /\ goals[f].vault = goals[t].vault
                       /\ ~Terminal(f)
                       /\ ~Terminal(t))
                      => last'.err = "Attachment pledged"]_vars

\* A transfer was rejected for the stored flag of the attachment it names.
C12_Witness ==
    /\ last.op = "transferDeposit"
    /\ last.err = "Attachment pledged"
    /\ HoldsPledged(last.goalId, last.caller, last.ids[1])

\* The attachment sequences with the pledged flag of (g, owner, depositId) set.
WithPledged(g, owner, depositId) ==
    [h \in GoalIds |->
        [i \in 1..Len(attachments[h]) |->
            IF h = g /\ attachments[h][i].owner = owner
                     /\ attachments[h][i].depositId = depositId
            THEN [owner |-> owner, depositId |-> depositId,
                  attachedAt |-> attachments[h][i].attachedAt, pledged |-> TRUE]
            ELSE attachments[h][i]]]

\* C13: reportPledgedAttachment(goalId, depositId) by caller with the vault
\* answering p succeeds exactly when the goal holds an attachment
\* (caller, depositId) and p reports (caller, depositId) pledged; then that
\* attachment's flag is set (nothing changes if it was set already) and no
\* other attachment changes; otherwise nothing of the contract changes; goal
\* records, the deposit index and the default-goal index never change.
C13_ReportPledged ==
    [][Idle =>
         \A c \in Users, g \in GoalIds, d \in DepositIds :
            \A p \in PledgeReports(c, {d}) :
               reportPledgedAttachment(c, g, d, p) =>
                  LET accepted == goals[g].id # 0 /\ Holds(g, c, d) /\ <<c, d>> \in p
                  IN /\ (last'.err = "ok") <=> accepted
                     /\ accepted => attachments' = WithPledged(g, c, d)
                     /\ (accepted /\ HoldsPledged(g, c, d)) => attachments' = attachments
                     /\ ~accepted => UNCHANGED contract
                     /\ UNCHANGED <<goals, depositToGoal, quicksaveGoalOf, goalCounter>>]_vars

\* A report the vault confirmed has set the flag of the caller's attachment.
C13_Witness ==
    /\ last.op = "reportPledgedAttachment"
    /\ last.err = "ok"
    /\ HoldsPledged(last.goalId, last.caller, last.ids[1])
    /\ \E i \in 1..Len(attachments[last.goalId]) : ~attachments[last.goalId][i].pledged

\* C14: cancelGoal(goalId) by caller with the vault answering p succeeds only
\* if the caller is the goal's creator or holds the admin or backend role, no
\* attachment of the goal has its stored flag set and p reports none of the
\* goal's attached deposits pledged; a failed call changes nothing of the
\* contract.
C14_CancelGuards ==
    [][Idle =>
         \A c \in Users \cup {Admin, Backend}, g \in GoalIds :
            \A p \in SUBSET AttachedPairs(g) :
               cancelGoal(c, g, p) =>
                  /\ last'.err = "ok" =>
                        /\ c = goals[g].creator \/ c = Admin \/ c = Backend
                        /\ \A i \in 1..Len(attachments[g]) : ~attachments[g][i].pledged
                        /\ p \cap AttachedPairs(g) = {}
                        /\ goals'[g].cancelled
                  /\ last'.err # "ok" => UNCHANGED contract]_vars

\* A cancel by the creator was rejected although no stored flag of the goal is
\* set: the vault reported one of its deposits pledged.
C14_Witness ==
    /\ last.op = "cancelGoal"
    /\ last.err = "Has pledged attachments"
    /\ last.caller = goals[last.goalId].creator
    /\ Len(attachments[last.goalId]) > 0
    /\ \A i \in 1..Len(attachments[last.goalId]) : ~attachments[last.goalId][i].pledged

\* C15: a successful cancelGoal or finalizeGoalIfCompleted sets the one
\* lifecycle flag of the goal named and leaves its other fields, every
\* attachment sequence, every other goal, the deposit index, the default-goal
\* index and the goal counter as they were.
C15_LifecycleFrame ==
    [][(last'.op \in {"cancelGoal", "finalizeGoalIfCompleted"} /\ last'.err = "ok") =>
          LET g == last'.goalId
          IN /\ UNCHANGED <<attachments, depositToGoal, quicksaveGoalOf, goalCounter>>
             /\ \A h \in GoalIds \ {g} : goals'[h] = goals[h]
             /\ goals'[g] = IF last'.op = "cancelGoal"
                            THEN [goals[g] EXCEPT !.cancelled = TRUE]
                            ELSE [goals[g] EXCEPT !.completed = TRUE]
             /\ goals'[g] # goals[g]]_vars

\* A goal holding attachments has just been cancelled and holds them still.
C15_Witness ==
    /\ last.op = "cancelGoal"
    /\ last.err = "ok"
    /\ goals[last.goalId].cancelled
    /\ Len(attachments[last.goalId]) > 0
    /\ \A i \in 1..Len(attachments[last.goalId]) :
          depositToGoal[<<goals[last.goalId].vault, attachments[last.goalId][i].owner,
                          attachments[last.goalId][i].depositId>>] = last.goalId

\* The vault's currentValue summed over the first n attachments of goal g.
RECURSIVE ValueOfFirst(_, _)
ValueOfFirst(g, n) ==
    IF n = 0 THEN 0
    ELSE VaultDeposits[<<goals[g].vault, attachments[g][n].owner,
                         attachments[g][n].depositId>>].currentValue
         + ValueOfFirst(g, n - 1)

\* Goal g exists, is Active, has a target and attached value reaching it.
Completable(g) ==
    /\ goals[g].id # 0
    /\ ~goals[g].cancelled
    /\ ~goals[g].completed
    /\ goals[g].targetAmount > 0
    /\ ValueOfFirst(g, Len(attachments[g])) >= goals[g].targetAmount

\* C16: finalizeGoalIfCompleted succeeds, marking the goal Completed, exactly
\* when the caller holds the keeper or admin role, the goal exists and is
\* Active, its targetAmount is > 0 and the vault's currentValue summed over
\* all its attachments is >= targetAmount; in every other case it fails and
\* nothing of the contract changes; a goal with target 0 is never Completed.
C16_FinalizeIff ==
    [][/\ last'.op = "finalizeGoalIfCompleted" =>
             LET g == last'.goalId
                 may == (hasKeeperRole(last'.caller) \/ hasAdminRole(last'.caller))
                        /\ Completable(g)
             IN /\ (last'.err = "ok") <=> may
                /\ may => goals'[g].completed
                /\ ~may => UNCHANGED contract
       /\ \A g \in GoalIds : goals'[g].targetAmount = 0 => ~goals'[g].completed]_vars

\* A goal was finalized with attached value exactly at its target.
C16_Witness ==
    /\ last.op = "finalizeGoalIfCompleted"
    /\ last.err = "ok"
    /\ goals[last.goalId].completed
    /\ ValueOfFirst(last.goalId, Len(attachments[last.goalId]))
          = goals[last.goalId].targetAmount

\* autoAttachToQuicksave(user, vault, depositId) by caller passes every
\* require: whitelisted caller, a default goal that is new or Active with room
\* under both caps, a deposit with value that no goal of the vault holds.
AutoAttachAccepted(caller, user, vault, depositId) ==
    LET q == quicksaveGoalOf[<<vault, user>>]
    IN /\ caller \in notifiers
       /\ q # 0 => /\ goals[q].id # 0 /\ ~Terminal(q)
                   /\ Len(attachments[q]) + 1 <= maxAttachmentsPerGoal
                   /\ userCount(attachments[q], user) + 1 <= maxAttachmentsPerUser
       /\ VaultDeposits[<<vault, user, depositId>>].currentValue > 0
       /\ \A h \in GoalIds : ~(goals[h].vault = vault /\ Holds(h, user, depositId))

Completes(g) == ~goals[g].completed /\ goals'[g].completed

\* C18 as stated: recordGoalCompletion is called for a goal exactly at the
\* step where the goal becomes Completed, and at no other step.
C18_RecordedAtCompletion ==
    [][\A g \in GoalIds :
          recorded'[g] = IF Completes(g) THEN recorded[g] + 1 ELSE recorded[g]]_vars

\* C18, amended: recordGoalCompletion is called for a goal exactly at the step
\* where the goal becomes Completed if a leaderboard is configured at that
\* step, and at no other step; so at most once per goal, and never for a goal
\* that is not Completed.
C18_RecordedOnceIfConfigured ==
    [][\A g \in GoalIds :
          /\ recorded'[g] = IF Completes(g) /\ leaderboard # ZeroAddress
                            THEN recorded[g] + 1 ELSE recorded[g]
          /\ recorded'[g] <= 1
          /\ recorded'[g] > 0 => goals'[g].completed]_vars

\* A second finalize of a goal whose completion was recorded was rejected and
\* recorded nothing.
C18_Witness ==
    /\ last.op = "finalizeGoalIfCompleted"
    /\ last.err = "Invalid goal"
    /\ goals[last.goalId].completed
    /\ recorded[last.goalId] = 1

\* C19: quicksaveGoalOf[vault][user], once non-zero, never changes; it is set
\* only to a goal created in that step for that pair; createQuicksaveGoalFor
\* fails for a pair already indexed; an autoAttachToQuicksave whose requires
\* pass creates the default goal only if the pair has none and attaches the
\* deposit to the goal indexed for the pair, so two such calls for one pair
\* with distinct deposits, in either order, leave one default goal holding both.
C19_DefaultGoalOnce ==
    [][/\ \A v \in Vaults, u \in Users :
             LET q == quicksaveGoalOf[<<v, u>>]
                 q2 == quicksaveGoalOf'[<<v, u>>]
             IN /\ q # 0 => q2 = q
                /\ q2 # q => /\ q2 = goalCounter
                             /\ goalCounter' = goalCounter + 1
                             /\ goals[q2].id = 0
                             /\ goals'[q2].id = q2
                             /\ goals'[q2].creator = u
                             /\ goals'[q2].vault = v
                             /\ goals'[q2].targetAmount = 0
       /\ Idle =>
             /\ \A c \in {Backend, "u2"}, u \in Users, v \in Vaults :
                   (createQuicksaveGoalFor(c, u, v) /\ quicksaveGoalOf[<<v, u>>] # 0)
                      => last'.err # "ok" /\ UNCHANGED contract
             /\ \A c \in {Notifier, Backend}, u \in Users, v \in Vaults, d \in DepositIds :
                   \A p \in PledgeReports(u, {d}) :
                      (autoAttachToQuicksave(c, u, v, d, p) /\ AutoAttachAccepted(c, u, v, d))
                         => LET q == quicksaveGoalOf[<<v, u>>]
                                q2 == quicksaveGoalOf'[<<v, u>>]
                            IN /\ last'.err = "ok"
                               /\ goalCounter' = IF q = 0 THEN goalCounter + 1 ELSE goalCounter
                               /\ \A h \in GoalIds \ {q2} : attachments'[h] = attachments[h]
                               /\ Len(attachments'[q2]) = Len(attachments[q2]) + 1
                               /\ depositToGoal'[<<v, u, d>>] = q2]_vars

\* Two autoAttachToQuicksave calls for (vA, u1), deposit 2 first and deposit 1
\* second, have left the one goal ever created holding both.
C19_Witness ==
    /\ last.op = "autoAttachToQuicksave"
    /\ last.err = "ok"
    /\ last.owner = "u1"
    /\ last.ids = <<1>>
    /\ goalCounter = 2
    /\ quicksaveGoalOf[<<"vA", "u1">>] = 1
    /\ Len(attachments[1]) = 2
    /\ attachments[1][1].depositId = 2
    /\ attachments[1][2].depositId = 1

\* C20: an autoAttachToQuicksave call by an address that is not in the
\* notifier whitelist at the time fails with "Not authorized notifier" and
\* nothing of the contract changes: no goal, no attachment, no index entry.
C20_NotifierOnly ==
    [][(last'.op = "autoAttachToQuicksave" /\ last'.caller \notin notifiers) =>
          /\ last'.err = "Not authorized notifier"
          /\ UNCHANGED contract]_vars

\* An address the admin took off the whitelist was rejected on a call that
\* would have created a default goal for a deposit with value.
C20_Witness ==
    /\ last.op = "autoAttachToQuicksave"
    /\ last.err = "Not authorized notifier"
    /\ last.caller = Notifier
    /\ Notifier \notin notifiers
    /\ quicksaveGoalOf[<<"vA", last.owner>>] = 0
    /\ VaultDeposits[<<"vA", last.owner, last.ids[1]>>].currentValue > 0

\* C21: autoAttachToQuicksave makes the checks of a one-id attachDeposits: when
\* it succeeds against a default goal that already exists, attachDeposits by
\* the owner with that depositId on that goal would have succeeded in the
\* same state.
C21_AutoAttachChecksAsAttach ==
    [][(/\ last'.op = "autoAttachToQuicksave"
        /\ last'.err = "ok"
        /\ goals[last'.goalId].id # 0)
       => attachResult(last'.goalId, last'.owner, last'.ids, {}).err = "ok"]_vars

\* C22: while attachmentsPaused is set, attachDeposits, attachDepositsOnBehalf,
\* autoAttachToQuicksave and transferDeposit all fail and leave the contract
\* as it was.
C22_PausedAttachmentsFail ==
    [][(attachmentsPaused /\ last'.op \in AttachOps \cup {"transferDeposit"})
       => (last'.err # "ok" /\ UNCHANGED contract)]_vars

\* C23: while creationPaused is set no goal comes into being, by createGoal,
\* createGoalFor, createQuicksaveGoalFor or the creation inside
\* autoAttachToQuicksave: the goals stay the same in number and identity.
C23_PausedCreationFreezesGoals ==
    [][creationPaused
       => (/\ goalCounter' = goalCounter
           /\ \A g \in GoalIds : goals'[g].id = goals[g].id)]_vars

DirectAttachOps == {"attachDeposits", "attachDepositsOnBehalf"}

\* C24: attachDeposits / attachDepositsOnBehalf succeed only on a goal that
\* exists and is Active, at a time now <= targetDate, with every listed
\* deposit of currentValue > 0 and, when targetAmount > 0, of lockEnd >= now;
\* "Goal window passed" is the answer only after targetDate, "Deposit already
\* unlocked" only on a goal with targetAmount > 0; and once a deposit of value
\* v stands alone in a goal with targetAmount = 0, getGoalProgressFull
\* returns (v, 0).
C24_AttachPreconditions ==
    /\ [][last'.op \in DirectAttachOps =>
            LET g == goals[last'.goalId]
                o == last'.owner
                ids == last'.ids
            IN /\ last'.err = "ok" =>
                    /\ g.id # 0 /\ ~g.cancelled /\ ~g.completed
                    /\ now <= g.targetDate
                    /\ \A i \in 1..Len(ids) :
                          /\ getUserDeposit(g.vault, o, ids[i]).currentValue > 0
                          /\ g.targetAmount > 0 =>
                                getUserDeposit(g.vault, o, ids[i]).lockEnd >= now
               /\ last'.err = "Goal window passed" => now > g.targetDate
               /\ last'.err = "Deposit already unlocked" =>
                    /\ g.targetAmount > 0
                    /\ \E i \in 1..Len(ids) :
                          getUserDeposit(g.vault, o, ids[i]).lockEnd < now]_vars
    /\ [](/\ last.op \in DirectAttachOps
          /\ last.err = "ok"
          /\ goals[last.goalId].targetAmount = 0
          /\ Len(attachments[last.goalId]) = 1
          => getGoalProgressFull(last.goalId) =
                [err |-> "ok",
                 totalValue |-> getUserDeposit(goals[last.goalId].vault, last.owner,
                                               last.ids[1]).currentValue,
                 percentBps |-> 0])

\* An unlocked deposit attached by its owner to a goal with targetAmount = 0
\* exactly at the goal's targetDate, the goal's progress being (value, 0).
C24_Witness ==
    /\ last.op = "attachDeposits"
    /\ last.err = "ok"
    /\ goals[last.goalId].targetAmount = 0
    /\ now = goals[last.goalId].targetDate
    /\ getUserDeposit(goals[last.goalId].vault, last.owner, last.ids[1]).lockEnd < now
    /\ getGoalProgressFull(last.goalId).totalValue > 0
    /\ getGoalProgressFull(last.goalId).percentBps = 0

\* The positions of arr that hold the deposit depositId of owner.
Places(arr, owner, depositId) ==
    {i \in 1..Len(arr) : arr[i].owner = owner /\ arr[i].depositId = depositId}

\* C25: transferDeposit moves whole or not at all.  A failed call leaves both
\* sequences and the index as they were.  After a successful one the
\* attachment is gone from the source, stands exactly once in the target, the
\* index maps its key to the target, the two lengths add up as before, and no
\* other attachment enters or leaves any goal.
C25_TransferWhole ==
    [][last'.op = "transferDeposit" =>
         LET c == last'.caller
             f == last'.goalId
             t == last'.to
             d == last'.ids[1]
         IN IF last'.err # "ok"
            THEN attachments' = attachments /\ depositToGoal' = depositToGoal
            ELSE /\ Places(attachments'[f], c, d) = {}
                 /\ Cardinality(Places(attachments'[t], c, d)) = 1
                 /\ depositToGoal'[depositKey(goals[t].vault, c, d)] = t
                 /\ Len(attachments'[f]) + Len(attachments'[t])
                       = Len(attachments[f]) + Len(attachments[t])
                 /\ \A g \in GoalIds, o \in Users, e \in DepositIds :
                       <<o, e>> # <<c, d>> =>
                          Cardinality(Places(attachments'[g], o, e))
                             = Cardinality(Places(attachments[g], o, e))
                 /\ \A g \in GoalIds \ {f, t} : attachments'[g] = attachments[g]
                 /\ \A k \in DepositKeys :
                       k # depositKey(goals[t].vault, c, d) =>
                          depositToGoal'[k] = depositToGoal[k]]_vars

\* A transfer that succeeded out of a source holding another attachment too.
C25_Witness ==
    /\ last.op = "transferDeposit"
    /\ last.err = "ok"
    /\ Len(attachments[last.goalId]) >= 1
    /\ Places(attachments[last.to], last.caller, last.ids[1]) # {}

\* C26: transferDeposit succeeds only if the two goals exist, differ, name the
\* same vault and are both Active, the caller owns an attachment of the
\* deposit in the source whose stored pledged flag is false, and the vault
\* reports the deposit with currentValue > 0 and lockEnd >= now.
C26_TransferPreconditions ==
    [][(last'.op = "transferDeposit" /\ last'.err = "ok") =>
         LET c == last'.caller
             f == last'.goalId
             t == last'.to
             d == last'.ids[1]
             dep == getUserDeposit(goals[f].vault, c, d)
         IN /\ f # t
            /\ goals[f].id # 0 /\ goals[t].id # 0
            /\ goals[f].vault = goals[t].vault
            /\ ~Terminal(f) /\ ~Terminal(t)
            /\ Places(attachments[f], c, d) # {}
            /\ \A i \in Places(attachments[f], c, d) : ~attachments[f][i].pledged
            /\ dep.currentValue > 0
            /\ dep.lockEnd >= now]_vars

\* A transfer that succeeded for a deposit at its lock end.
C26_Witness ==
    /\ last.op = "transferDeposit"
    /\ last.err = "ok"
    /\ getUserDeposit(goals[last.to].vault, last.caller, last.ids[1]).lockEnd = now

\* The entry stored for a deposit attached now under the pledge report p.
Fresh(owner, depositId, p) ==
    [owner |-> owner, depositId |-> depositId, attachedAt |-> now,
     pledged |-> isDepositPledged(p, owner, depositId)]

\* C27: right after a successful attachDeposits, attachDepositsOnBehalf,
\* autoAttachToQuicksave or transferDeposit, every attachment the call made
\* stores as pledged what the vault's isDepositPledged(owner, depositId)
\* answered during the call, and as attachedAt the time of the call.
C27_PledgeCapturedFresh ==
    [][last'.err = "ok" =>
         LET c == last'.caller
             g == last'.goalId
             o == last'.owner
             ids == last'.ids
             before == Len(attachments[g])
         IN /\ last'.op = "attachDeposits" =>
                 \A p \in PledgeReports(o, Range(ids)) :
                    attachDeposits(c, g, ids, p) =>
                       \A i \in 1..Len(ids) :
                          attachments'[g][before + i] = Fresh(o, ids[i], p)
            /\ last'.op = "attachDepositsOnBehalf" =>
                 \A p \in PledgeReports(o, Range(ids)) :
                    attachDepositsOnBehalf(c, g, o, ids, p) =>
                       \A i \in 1..Len(ids) :
                          attachments'[g][before + i] = Fresh(o, ids[i], p)
            /\ last'.op = "autoAttachToQuicksave" =>
                 \A v \in Vaults, p \in PledgeReports(o, Range(ids)) :
                    autoAttachToQuicksave(c, o, v, ids[1], p) =>
                       attachments'[g][before + 1] = Fresh(o, ids[1], p)
            /\ last'.op = "transferDeposit" =>
                 \A p \in PledgeReports(o, Range(ids)) :
                    transferDeposit(c, g, last'.to, ids[1], p) =>
                       attachments'[last'.to][Len(attachments[last'.to]) + 1]
                          = Fresh(o, ids[1], p)]_vars

\* A deposit attached unpledged on one day and moved on a later one, when the
\* vault reports it pledged: the entry in the target is pledged and dated to
\* the day of the move.
C27_Witness ==
    /\ last.op = "transferDeposit"
    /\ last.err = "ok"
    /\ now > StartTime
    /\ LET arr == attachments[last.to]
       IN /\ arr[Len(arr)].pledged
          /\ arr[Len(arr)].attachedAt = now
          /\ arr[Len(arr)].depositId = last.ids[1]

\* What a view returns when no require fails.
Returned(totalValue, percentBps) ==
    [err |-> "ok", totalValue |-> totalValue, percentBps |-> percentBps]

\* The page bounds tried on a goal: up to two past its attachment count.
PageBounds(g) == 0..(Len(attachments[g]) + 2)

\* C28 as stated: getGoalProgressPaged(goalId, start, end) returns (0, 0)
\* whenever start >= the goal's attachment count, for every end.
C28_EmptyPageForEveryEnd ==
    \A g \in GoalIds : goals[g].id # 0 =>
       \A start \in PageBounds(g), end \in PageBounds(g) :
          start >= Len(attachments[g]) =>
             getGoalProgressPaged(g, start, end) = Returned(0, 0)

\* C28: getGoalProgressPaged(goalId, start, end) with start >= the goal's
\* attachment count returns (0, 0) for every end >= start, and fails with
\* "Invalid range" for every end < start.
C28_EmptyPageBeyondCount ==
    \A g \in GoalIds : goals[g].id # 0 =>
       \A start \in PageBounds(g), end \in PageBounds(g) :
          start >= Len(attachments[g]) =>
             getGoalProgressPaged(g, start, end) =
                IF end >= start THEN Returned(0, 0) ELSE [err |-> "Invalid range"]

\* A goal holding value whose page from its attachment count on is (0, 0).
C28_Witness ==
    \E g \in GoalIds :
       /\ goals[g].id # 0
       /\ Len(attachments[g]) >= 2
       /\ getGoalProgressFull(g).totalValue > 0
       /\ getGoalProgressPaged(g, Len(attachments[g]), Len(attachments[g]) + 2)
             = Returned(0, 0)

\* The value the vault reports for the attachment at position i (from 1) of g.
ValueAt(g, i) ==
    getUserDeposit(goals[g].vault, attachments[g][i].owner,
                   attachments[g][i].depositId).currentValue

\* The sum of the values at the positions S of goal g.
RECURSIVE SumOver(_, _)
SumOver(g, S) ==
    IF S = {} THEN 0
    ELSE LET i == CHOOSE j \in S : TRUE
         IN ValueAt(g, i) + SumOver(g, S \ {i})

\* The positions (from 1) of the 0-based half-open range [start, min(end, len)).
PagePositions(g, start, end) ==
    {i \in 1..Len(attachments[g]) : start < i /\ i <= end}

\* q is total * 10000 / target rounded down.
IsFloorBps(q, total, target) ==
    q * target <= total * 10000 /\ total * 10000 < (q + 1) * target

\* C29: for every goal and every start <= end, getGoalProgressPaged returns
\* as totalValue the sum of the vault's currentValue over the attachments at
\* positions [start, min(end, len)), and as percentBps that total times 10000
\* over targetAmount rounded down, or 0 when targetAmount = 0;
\* getGoalProgressFull returns what the page (0, len) returns; and for every
\* k the totals of the pages (0, k) and (k, len) add up to the full total.
C29_ProgressArithmetic ==
    \A g \in GoalIds : goals[g].id # 0 =>
       LET len == Len(attachments[g])
           full == getGoalProgressFull(g)
       IN /\ \A start \in PageBounds(g), end \in PageBounds(g) :
                start <= end =>
                   LET r == getGoalProgressPaged(g, start, end)
                   IN /\ r.err = "ok"
                      /\ r.totalValue = SumOver(g, PagePositions(g, start, end))
                      /\ IF goals[g].targetAmount > 0
                         THEN IsFloorBps(r.percentBps, r.totalValue, goals[g].targetAmount)
                         ELSE r.percentBps = 0
          /\ full = getGoalProgressPaged(g, 0, len)
          /\ \A k \in 0..len :
                getGoalProgressPaged(g, 0, k).totalValue
                   + getGoalProgressPaged(g, k, len).totalValue = full.totalValue

\* A goal with a target whose two attachments fall on two pages, the first
\* page's share of the target not being a whole number of basis points.
C29_Witness ==
    \E g \in GoalIds :
       /\ goals[g].targetAmount > 0
       /\ Len(attachments[g]) = 2
       /\ getGoalProgressPaged(g, 0, 1).totalValue > 0
       /\ getGoalProgressPaged(g, 1, 2).totalValue > 0
       /\ (getGoalProgressPaged(g, 0, 1).totalValue * 10000) % goals[g].targetAmount # 0

\* The target dates a createGoal call may have named.
DatesTried == {0, now + MIN_LOCK_PERIOD - 1, now + MIN_LOCK_PERIOD, now + MIN_LOCK_PERIOD + 1}

\* C30: createGoal with a non-zero targetDate before now + MIN_LOCK_PERIOD
\* fails and creates nothing; with targetDate 0 the goal gets
\* now + MIN_LOCK_PERIOD, otherwise the date given; a default goal, made by
\* createQuicksaveGoalFor or inside autoAttachToQuicksave, gets targetAmount 0
\* and targetDate now + MIN_LOCK_PERIOD; and every goal of every reachable
\* state has targetDate >= createdAt + MIN_LOCK_PERIOD.
C30_MinimumHorizon ==
    /\ [](\A g \in GoalIds : goals[g].id # 0 =>
             goals[g].targetDate >= goals[g].createdAt + MIN_LOCK_PERIOD)
    /\ [][/\ last'.op = "createGoal" =>
               \A v \in Vaults, d \in DatesTried :
                  createGoal(last'.caller, v, 2, d) =>
                     /\ (d # 0 /\ d < now + MIN_LOCK_PERIOD) =>
                           (last'.err # "ok" /\ UNCHANGED contract)
                     /\ last'.err = "ok" =>
                           /\ goals'[last'.goalId].createdAt = now
                           /\ goals'[last'.goalId].targetDate =
                                 IF d = 0 THEN now + MIN_LOCK_PERIOD ELSE d
          /\ (/\ last'.op \in {"createQuicksaveGoalFor", "autoAttachToQuicksave"}
              /\ goalCounter' # goalCounter) =>
                 /\ goals'[goalCounter].id = goalCounter
                 /\ goals'[goalCounter].targetAmount = 0
                 /\ goals'[goalCounter].createdAt = now
                 /\ goals'[goalCounter].targetDate = now + MIN_LOCK_PERIOD]_vars

\* A createGoal turned down for its date on a day after the deployment's,
\* beside a default goal made on such a day with the minimum horizon.
C30_Witness ==
    /\ last.op = "createGoal"
    /\ last.err = "Target too soon"
    /\ \E g \in GoalIds :
          /\ goals[g].id # 0
          /\ goals[g].targetAmount = 0
          /\ goals[g].createdAt > StartTime
          /\ goals[g].targetDate = goals[g].createdAt + MIN_LOCK_PERIOD

\* C31: goal ids are assigned 1, 2, 3, ... and never again; the creator,
\* vault, targetAmount, targetDate and createdAt of a goal never change once
\* it exists and its record never goes away; cancelled and completed never go
\* from true back to false.
C31_GoalRecordsPermanent ==
    /\ [](\A g \in GoalIds : IF g < goalCounter THEN goals[g].id = g ELSE goals[g] = NoGoal)
    /\ [][/\ goalCounter' \in {goalCounter, goalCounter + 1}
          /\ \A g \in GoalIds :
                goals[g].id # 0 =>
                   /\ goals'[g].id = goals[g].id
                   /\ goals'[g].creator = goals[g].creator
                   /\ goals'[g].vault = goals[g].vault
                   /\ goals'[g].targetAmount = goals[g].targetAmount
                   /\ goals'[g].targetDate = goals[g].targetDate
                   /\ goals'[g].createdAt = goals[g].createdAt
                   /\ goals[g].cancelled => goals'[g].cancelled
                   /\ goals[g].completed => goals'[g].completed]_vars

\* A second goal created after the first was cancelled: it gets the next id
\* and the cancelled record is still there.
C31_Witness ==
    /\ last.op = "createGoal"
    /\ last.err = "ok"
    /\ last.goalId = 2
    /\ goals[1].cancelled
    /\ goals[1].id = 1

AdminOps == {"setCreationPaused", "setAttachmentsPaused", "updateAttachmentLimits",
             "setNotifier", "setLeaderboard"}

\* C32: creationPaused, attachmentsPaused, the two attachment limits, the
\* notifier whitelist and the leaderboard address change only in a successful
\* administrative call whose caller holds the admin role; an administrative
\* call by anyone else fails and leaves everything as it was.
C32_AdminStateByAdminOnly ==
    [][/\ config' # config =>
            /\ last'.op \in AdminOps
            /\ last'.err = "ok"
            /\ hasAdminRole(last'.caller)
       /\ (last'.op \in AdminOps /\ ~hasAdminRole(last'.caller)) =>
            /\ last'.err # "ok"
            /\ UNCHANGED <<now, recorded, contract>>]_vars

\* The backend turned down on updateAttachmentLimits, after the admin has
\* changed the limits, paused creation and named a leaderboard.
C32_Witness ==
    /\ last.op = "updateAttachmentLimits"
    /\ last.caller = Backend
    /\ last.err # "ok"
    /\ maxAttachmentsPerUser # CapUser
    /\ creationPaused
    /\ leaderboard # ZeroAddress

\* C33: no other mutating entry point executes while attachDeposits is in
\* progress, its callouts included: when the call is over, the contract
\* differs from before only by what attachDeposits itself writes, the entries
\* for its own depositIds at the end of the goal it names and their keys in
\* the index.
C33_NoReentry ==
    [][last'.op = "attachDeposits" =>
         LET g == last'.goalId
             own == IF last'.err = "ok" THEN Len(last'.ids) ELSE 0
         IN /\ goalCounter' = goalCounter
            /\ goals' = goals
            /\ quicksaveGoalOf' = quicksaveGoalOf
            /\ \A h \in GoalIds \ {g} : attachments'[h] = attachments[h]
            /\ Len(attachments'[g]) = Len(attachments[g]) + own
            /\ \A i \in 1..own :
                  /\ attachments'[g][Len(attachments[g]) + i].owner = last'.owner
                  /\ attachments'[g][Len(attachments[g]) + i].depositId = last'.ids[i]]_vars

\* C34: an attachment of owner o leaves a goal's sequence only in a
\* successful detachAttachments or transferDeposit whose caller is o; no call
\* by anyone else, cancelGoal and finalizeGoalIfCompleted included, removes
\* or moves it.
C34_OnlyOwnerUnbinds ==
    [][\A g \in GoalIds, o \in Users, d \in DepositIds :
          Cardinality(Places(attachments'[g], o, d)) < Cardinality(Places(attachments[g], o, d))
          => /\ last'.op \in {"detachAttachments", "transferDeposit"}
             /\ last'.err = "ok"
             /\ last'.caller = o
             /\ last'.goalId = g]_vars

\* An owner who has detached from a goal somebody else created, beside
\* another owner's attachment that stays.
C34_Witness ==
    /\ last.op = "detachAttachments"
    /\ last.err = "ok"
    /\ goals[last.goalId].creator # last.caller
    /\ \E i \in 1..Len(attachments[last.goalId]) :
          attachments[last.goalId][i].owner # last.caller

\* Goal g holds an attachment whose stored pledged flag is set.
AnyStoredPledge(g) ==
    \E i \in 1..Len(attachments[g]) : attachments[g][i].pledged

\* C35: a goal that is not cancelled and holds an attachment whose stored
\* pledged flag is set is, after every step, still not cancelled and still
\* holds such an attachment, whatever the vault answers during the step; a
\* cancelGoal naming it by a permitted caller fails with
\* "Has pledged attachments".
C35_PledgedGoalNeverCancelled ==
    [][/\ \A g \in GoalIds :
             (AnyStoredPledge(g) /\ ~goals[g].cancelled)
             => (AnyStoredPledge(g)' /\ ~goals'[g].cancelled)
       /\ (/\ last'.op = "cancelGoal"
           /\ AnyStoredPledge(last'.goalId)
           /\ ~goals[last'.goalId].cancelled
           /\ \/ last'.caller = goals[last'.goalId].creator
              \/ hasAdminRole(last'.caller)
              \/ hasBackendRole(last'.caller))
          => last'.err = "Has pledged attachments"]_vars

C35_Witness ==
    /\ last.op = "cancelGoal"
    /\ last.err = "Has pledged attachments"
    /\ AnyStoredPledge(last.goalId)
    /\ ~goals[last.goalId].cancelled

\* The depositIds of the attachments the second loop removes from position i
\* on: at each position, the entry at the processed index before the swap.
RECURSIVE detachRemoved(_, _, _)
detachRemoved(indices, i, arr) ==
    IF i > Len(indices) THEN <<>>
    ELSE <<arr[indices[i] + 1].depositId>>
         \o detachRemoved(indices, i + 1, swapPop(arr, indices[i] + 1))

\* C36: in every successful detachAttachments the DepositDetached events
\* carry, in loop order, the depositIds of the attachments removed.
C36_EventNamesRemoved ==
    [][(last'.op = "detachAttachments" /\ last'.err = "ok")
       => detachEvents(last'.ids, 1, attachments[last'.goalId])
          = detachRemoved(last'.ids, 1, attachments[last'.goalId])]_vars

\* The pair (vault, user) has a default goal and that goal is cancelled.
CancelledDefault(vault, user) ==
    /\ quicksaveGoalOf[<<vault, user>>] # 0
    /\ goals[quicksaveGoalOf[<<vault, user>>]].cancelled

\* C37: once the default goal of a pair (vault, user) is cancelled, every
\* step leaves quicksaveGoalOf[vault][user] on that goal and the goal
\* cancelled; every createQuicksaveGoalFor and every autoAttachToQuicksave
\* for the pair fails and changes nothing (the backend's with "Quicksave goal
\* already exists", a whitelisted notifier's with "Invalid goal").
C37_CancelledDefaultStays ==
    [][/\ \A v \in Vaults, u \in Users :
             CancelledDefault(v, u)
             => /\ quicksaveGoalOf'[<<v, u>>] = quicksaveGoalOf[<<v, u>>]
                /\ goals'[quicksaveGoalOf[<<v, u>>]].cancelled
                /\ Len(attachments'[quicksaveGoalOf[<<v, u>>]])
                      <= Len(attachments[quicksaveGoalOf[<<v, u>>]])
       /\ Idle =>
             /\ \A c \in {Backend, "u2"}, u \in Users, v \in Vaults :
                   (createQuicksaveGoalFor(c, u, v) /\ CancelledDefault(v, u))
                      => /\ last'.err # "ok"
                         /\ c = Backend => last'.err = "Quicksave goal already exists"
                         /\ UNCHANGED contract
             /\ \A c \in {Notifier, Backend}, u \in Users, v \in Vaults, d \in DepositIds :
                   \A p \in PledgeReports(u, {d}) :
                      (autoAttachToQuicksave(c, u, v, d, p) /\ CancelledDefault(v, u))
                         => /\ last'.err # "ok"
                            /\ c \in notifiers => last'.err = "Invalid goal"
                            /\ UNCHANGED contract]_vars

\* A whitelisted notifier's autoAttachToQuicksave for a pair whose default goal
\* is cancelled was rejected.
C37_Witness ==
    /\ last.op = "autoAttachToQuicksave"
    /\ last.err = "Invalid goal"
    /\ last.caller \in notifiers
    /\ quicksaveGoalOf[<<"vA", last.owner>>] = last.goalId
    /\ goals[last.goalId].cancelled

\* The loop iterations of the transaction whose receipt is rc, run in the
\* state before it; the vault's pledge answers, which the receipt does not
\* hold, as p.
IterationsOf(rc, p) ==
    CASE rc.op = "attachDeposits" -> attachIterations(rc.goalId, rc.owner, rc.ids)
      [] rc.op = "attachDepositsOnBehalf" ->
            IF hasBackendRole(rc.caller) THEN attachIterations(rc.goalId, rc.owner, rc.ids)
            ELSE 0
      [] rc.op = "autoAttachToQuicksave" -> autoAttachIterations(rc.caller, rc.goalId)
      [] rc.op = "transferDeposit" -> transferIterations(rc.caller, rc.goalId, rc.to, rc.ids[1])
      [] rc.op = "detachAttachments" -> detachIterations(rc.caller, rc.goalId, rc.ids)
      [] rc.op = "reportPledgedAttachment" -> reportIterations(rc.caller, rc.goalId, rc.ids[1])
      [] rc.op = "cancelGoal" -> cancelIterations(rc.caller, rc.goalId, p)
      [] rc.op = "finalizeGoalIfCompleted" -> finalizeIterations(rc.caller, rc.goalId)
      [] OTHER -> 0

\* The attachment count of the goals the transaction names.
NamedCount(rc) ==
    Len(attachments[rc.goalId])
    + IF rc.op = "transferDeposit" /\ rc.to \in GoalIds /\ rc.to # rc.goalId
      THEN Len(attachments[rc.to]) ELSE 0

GoalOps ==
    {"attachDeposits", "attachDepositsOnBehalf", "autoAttachToQuicksave", "transferDeposit",
     "detachAttachments", "reportPledgedAttachment", "cancelGoal", "finalizeGoalIfCompleted"}

Credited(m) == {c \in CallIds : xpCalls[c].credited /\ xpCalls[c].metaGoalId = m}

\* C39: among any number of concurrent checkAndAwardXP calls for a meta-goal
\* at most one runs awardXP, every user has at most one xpHistory entry of the
\* meta-goal, and once awardXP has run xpAwarded is true in every state.
C39_AwardedOnce ==
    \A m \in MetaGoalDocs :
        /\ Cardinality(Credited(m)) <= 1
        /\ \A u \in Users :
              Cardinality({i \in 1..Len(xpHistory) :
                              xpHistory[i].metaGoalId = m /\ xpHistory[i].userAddress = u}) <= 1
        /\ Credited(m) # {} => xpAwarded[m] = TRUE

\* One call credited the owner of a completed goal and returned; two more
\* calls for the meta-goal returned without crediting.
C39_Witness ==
    /\ \E c \in CallIds : xpCalls[c].credited /\ xpCalls[c].pc = "returned"
    /\ Cardinality({c \in CallIds : /\ ~xpCalls[c].credited
                                    /\ xpCalls[c].pc = "returned"
                                    /\ xpCalls[c].metaGoalId = "m1"}) = 2
    /\ Len(xpHistory) = 1
    /\ xpHistory[1].xpEarned = 2

\* C40: a returned checkAndAwardXP call reports awarded = true exactly when
\* it ran awardXP, and awarded = false exactly when it credited nothing.
C40_ReportsWhatItDid ==
    \A c \in CallIds :
        xpCalls[c].pc = "returned"
        => /\ xpCalls[c].awarded = "true" <=> xpCalls[c].credited
           /\ xpCalls[c].awarded = "false" <=> ~xpCalls[c].credited

====
